---------------------------- MODULE Spec2Model ----------------------------
(***************************************************************************)
(* Clinical Core: the ICD-10 search pipeline (ClinicalSearchEngine and     *)
(* ICD10ExtendedRepository), the legacy ClinicalSearchService, and the     *)
(* search / selection log writers.                                         *)
(*                                                                         *)
(* Strings are sequences of one-character strings, so that strip, lower,   *)
(* upper, accent folding, tokenising and the regular expressions of the    *)
(* code are computed rather than assumed.  Scores are integers in units of *)
(* 1e-4 (the code rounds scores to four decimals).                         *)
(***************************************************************************)
EXTENDS Integers, Sequences, FiniteSets, TLC

(***************************************************************************)
(* Characters and the string primitives of Python / SQL used by the code.  *)
(***************************************************************************)
LowerLetters ==
    {"a","b","c","d","e","f","g","h","i","j","k","l","m",
     "n","o","p","q","r","s","t","u","v","w","x","y","z"}

UpperLetters ==
    {"A","B","C","D","E","F","G","H","I","J","K","L","M",
     "N","O","P","Q","R","S","T","U","V","W","X","Y","Z"}

Digits == {"0","1","2","3","4","5","6","7","8","9"}

Whitespace == {" "}

\* str.lower() on one character ("É" -> "é", "Ñ" -> "ñ").
LowerChar(c) ==
    CASE c = "A" -> "a" [] c = "B" -> "b" [] c = "C" -> "c" [] c = "D" -> "d"
      [] c = "E" -> "e" [] c = "F" -> "f" [] c = "G" -> "g" [] c = "H" -> "h"
      [] c = "I" -> "i" [] c = "J" -> "j" [] c = "K" -> "k" [] c = "L" -> "l"
      [] c = "M" -> "m" [] c = "N" -> "n" [] c = "O" -> "o" [] c = "P" -> "p"
      [] c = "Q" -> "q" [] c = "R" -> "r" [] c = "S" -> "s" [] c = "T" -> "t"
      [] c = "U" -> "u" [] c = "V" -> "v" [] c = "W" -> "w" [] c = "X" -> "x"
      [] c = "Y" -> "y" [] c = "Z" -> "z" [] c = "É" -> "é" [] c = "Ñ" -> "ñ"
      [] OTHER -> c

\* str.upper() on one character.
UpperChar(c) ==
    CASE c = "a" -> "A" [] c = "b" -> "B" [] c = "c" -> "C" [] c = "d" -> "D"
      [] c = "e" -> "E" [] c = "f" -> "F" [] c = "g" -> "G" [] c = "h" -> "H"
      [] c = "i" -> "I" [] c = "j" -> "J" [] c = "k" -> "K" [] c = "l" -> "L"
      [] c = "m" -> "M" [] c = "n" -> "N" [] c = "o" -> "O" [] c = "p" -> "P"
      [] c = "q" -> "Q" [] c = "r" -> "R" [] c = "s" -> "S" [] c = "t" -> "T"
      [] c = "u" -> "U" [] c = "v" -> "V" [] c = "w" -> "W" [] c = "x" -> "X"
      [] c = "y" -> "Y" [] c = "z" -> "Z" [] c = "é" -> "É" [] c = "ñ" -> "Ñ"
      [] OTHER -> c

\* NFKD decomposition followed by dropping the combining marks.
StripAccentChar(c) ==
    CASE c = "é" -> "e" [] c = "ñ" -> "n" [] c = "É" -> "E" [] c = "Ñ" -> "N"
      [] OTHER -> c

MapStr(s, F(_)) == [i \in 1..Len(s) |-> F(s[i])]

Lower(s) == MapStr(s, LowerChar)

Upper(s) == MapStr(s, UpperChar)

StripAccents(s) == MapStr(s, StripAccentChar)

RECURSIVE LStrip(_)
LStrip(s) ==
    IF s # << >> /\ Head(s) \in Whitespace THEN LStrip(Tail(s)) ELSE s

RECURSIVE RStrip(_)
RStrip(s) ==
    IF s # << >> /\ s[Len(s)] \in Whitespace
    THEN RStrip(SubSeq(s, 1, Len(s) - 1))
    ELSE s

\* str.strip()
Strip(s) == RStrip(LStrip(s))

\* str.replace(ch, "")
RemoveChar(s, ch) == SelectSeq(s, LAMBDA c : c # ch)

\* str.startswith
StartsWith(s, p) == Len(p) <= Len(s) /\ SubSeq(s, 1, Len(p)) = p

\* "needle in hay" of Python, and LIKE '%needle%' of SQL.
Contains(hay, needle) ==
    \E i \in 0..(Len(hay) - Len(needle)) :
        SubSeq(hay, i + 1, i + Len(needle)) = needle

\* ILIKE '%needle%'
IContains(hay, needle) == Contains(Lower(hay), Lower(needle))

\* Maximal runs of characters of the class cls, in order (re.findall of
\* "[cls]+", and str.split() when cls is the non-whitespace class).
RECURSIVE Runs(_, _, _, _)
Runs(s, InCls(_), cur, acc) ==
    IF s = << >>
    THEN IF cur = << >> THEN acc ELSE Append(acc, cur)
    ELSE IF InCls(Head(s))
         THEN Runs(Tail(s), InCls, Append(cur, Head(s)), acc)
         ELSE Runs(Tail(s), InCls, << >>,
                   IF cur = << >> THEN acc ELSE Append(acc, cur))

\* str.split()
Split(s) == Runs(s, LAMBDA c : c \notin Whitespace, << >>, << >>)

\* " ".join(tokens)
RECURSIVE JoinSpace(_)
JoinSpace(toks) ==
    IF toks = << >> THEN << >>
    ELSE IF Len(toks) = 1 THEN toks[1]
    ELSE toks[1] \o <<" ">> \o JoinSpace(Tail(toks))

\* Code points order the characters of a code: " " < "." < digits < upper < lower.
CodePointOrder ==
    <<" ", ".", "0","1","2","3","4","5","6","7","8","9",
      "A","B","C","D","E","F","G","H","I","J","K","L","M",
      "N","O","P","Q","R","S","T","U","V","W","X","Y","Z",
      "a","b","c","d","e","f","g","h","i","j","k","l","m",
      "n","o","p","q","r","s","t","u","v","w","x","y","z">>

CharOrd(c) ==
    IF \E i \in 1..Len(CodePointOrder) : CodePointOrder[i] = c
    THEN CHOOSE i \in 1..Len(CodePointOrder) : CodePointOrder[i] = c
    ELSE Len(CodePointOrder) + 1

\* a < b for Python strings.
RECURSIVE StrLess(_, _)
StrLess(a, b) ==
    IF b = << >> THEN FALSE
    ELSE IF a = << >> THEN TRUE
    ELSE IF Head(a) = Head(b) THEN StrLess(Tail(a), Tail(b))
    ELSE CharOrd(Head(a)) < CharOrd(Head(b))

(***************************************************************************)
(* Normalisation and query classification.                                 *)
(***************************************************************************)
\* Python's None where a string is expected.
None == <<"<None>">>

\* An Optional[int] is << >> (None) or <<n>>; an optional sequence of
\* strings that is None is << >> as well (the code only tests its truth).
NoInt == << >>

Some(n) == <<n>>

\* _TOKEN_RE = [a-z0-9.]+
IsTokenChar(c) == c \in LowerLetters \cup Digits \cup {"."}

TokenFindAll(s) == Runs(s, IsTokenChar, << >>, << >>)

STOPWORDS_ES ==
    {<<"d","e">>, <<"l","a">>, <<"d","e","l">>, <<"e","l">>, <<"l","o","s">>, <<"l","a","s">>, <<"y">>, <<"e","n">>,
     <<"c","o","n">>, <<"p","o","r">>, <<"p","a","r","a">>, <<"a","l">>, <<"u","n">>, <<"u","n","a">>, <<"u","n","o","s">>,
     <<"u","n","a","s">>, <<"a">>, <<"o">>, <<"u">>, <<"q","u","e">>, <<"s","e">>, <<"s","u">>}

\* normalize_text losing the first token.
normalize_text_tail(value) ==
    LET tokens == TokenFindAll(StripAccents(Lower(Strip(value))))
    IN  JoinSpace(IF tokens # << >> THEN Tail(tokens) ELSE tokens)

\* search_normalization.normalize_text
normalize_text(value) ==
    JoinSpace(TokenFindAll(StripAccents(Lower(Strip(value)))))

\* _normalize_query without the strip and the tokenising.
normalize_query_untokenised(value) == StripAccents(Lower(value))

\* ClinicalSearchEngine._normalize_query
normalize_query(value) ==
    LET tokens == TokenFindAll(StripAccents(Lower(Strip(value))))
        filtered_tokens == SelectSeq(tokens, LAMBDA t : t \notin STOPWORDS_ES)
    IN  JoinSpace(IF filtered_tokens # << >> THEN filtered_tokens ELSE tokens)

IsAsciiLetter(c) == c \in LowerLetters \cup UpperLetters

AllDigits(s) == \A i \in 1..Len(s) : s[i] \in Digits

\* ICD_CODE_RE = ^[A-Za-z]\d{2,4}(\.\d{0,2})?$
MatchICD_CODE_RE(s) ==
    /\ Len(s) >= 3
    /\ IsAsciiLetter(s[1])
    /\ \E k \in 2..4 :
          /\ Len(s) >= 1 + k
          /\ AllDigits(SubSeq(s, 2, 1 + k))
          /\ LET rest == SubSeq(s, 2 + k, Len(s))
             IN  \/ rest = << >>
                 \/ /\ Head(rest) = "."
                    /\ Len(rest) <= 3
                    /\ AllDigits(Tail(rest))

\* re.match(r"^[A-Za-z]\d", s)
MatchLetterDigit(s) ==
    Len(s) >= 2 /\ IsAsciiLetter(s[1]) /\ s[2] \in Digits

\* ClinicalSearchEngine._is_code_query
is_code_query_of(value) ==
    LET compact == RemoveChar(Strip(value), " ")
    IN  MatchICD_CODE_RE(compact) \/ MatchLetterDigit(compact)

\* ClinicalSearchEngine._normalize_code_query
normalize_code_query(value) == RemoveChar(Upper(Strip(value)), " ")

\* icd10_extended_repository.ICD_CODE_QUERY_RE = ^[A-Za-z]\d[0-9A-Za-z.]*$
MatchICD_CODE_QUERY_RE(s) ==
    /\ MatchLetterDigit(s)
    /\ \A i \in 3..Len(s) :
          s[i] \in Digits \cup LowerLetters \cup UpperLetters \cup {"."}

\* ClinicalIntentConfig.intent_keywords, in iteration order, restricted to the
\* keywords that occur in some query of RawQueries (no other keyword of the
\* map is a substring of a normalised query of the model).
intent_keywords ==
    << [intent |-> <<"i","n","f","e","c","t","i","o","n">>, keywords |-> << <<"n","e","u","m","o","n","i","a">> >>],
       [intent |-> <<"c","a","r","d","i","o","m","e","t","a","b","o","l","i","c">>, keywords |-> << <<"d","i","a","b","e","t","e","s">> >>],
       [intent |-> <<"r","e","s","p","i","r","a","t","o","r","y">>, keywords |-> << <<"n","e","u","m","o","n","i","a">>, <<"t","o","s">> >>],
       [intent |-> <<"n","e","u","r","o","l","o","g","i","c","a","l">>, keywords |-> << <<"c","e","f","a","l","e","a">>, <<"m","i","g","r","a","ñ","a">> >>] >>

\* ClinicalSearchEngine._detect_intent
RECURSIVE BestIntent(_, _, _, _)
BestIntent(i, normalized_query, best_intent, best_hits) ==
    IF i > Len(intent_keywords) THEN
        IF best_hits > 0 THEN best_intent ELSE None
    ELSE
        LET tokens == {Split(normalized_query)[k] :
                          k \in 1..Len(Split(normalized_query))}
            kws == intent_keywords[i].keywords
            hits == Cardinality({k \in 1..Len(kws) :
                        Contains(normalized_query, kws[k]) \/ kws[k] \in tokens})
        IN  IF hits > best_hits
            THEN BestIntent(i + 1, normalized_query, intent_keywords[i].intent, hits)
            ELSE BestIntent(i + 1, normalized_query, best_intent, best_hits)

detect_intent(normalized_query) == BestIntent(1, normalized_query, None, 0)

\* The expansion made for every query with the token dolor.
expand_query_variants_any_dolor(normalized_query) ==
    LET base_tokens == TokenFindAll(Lower(Strip(normalized_query)))
        filtered_tokens == SelectSeq(base_tokens, LAMBDA t : t \notin STOPWORDS_ES)
        collapsed == JoinSpace(IF filtered_tokens # << >>
                               THEN filtered_tokens ELSE base_tokens)
        add_variant(variants, value) ==
            LET candidate == Strip(JoinSpace(Split(value)))
            IN  IF candidate # << >>
                   /\ \A k \in 1..Len(variants) : variants[k] # candidate
                THEN Append(variants, candidate)
                ELSE variants
        has_dolor == \E k \in 1..Len(filtered_tokens) :
                        filtered_tokens[k] = <<"d","o","l","o","r">>
        has_head_prefix == \E k \in 1..Len(filtered_tokens) :
                              StartsWith(filtered_tokens[k], <<"c","a","b","e">>)
        v0 == IF has_dolor
              THEN add_variant(add_variant(<< >>, <<"c","e","f","a","l","e","a">>), <<"m","i","g","r","a","ñ","a">>)
              ELSE << >>
    IN  add_variant(v0, collapsed)

\* ClinicalSearchEngine._expand_query_variants
expand_query_variants(normalized_query) ==
    LET base_tokens == TokenFindAll(Lower(Strip(normalized_query)))
        filtered_tokens == SelectSeq(base_tokens, LAMBDA t : t \notin STOPWORDS_ES)
        collapsed == JoinSpace(IF filtered_tokens # << >>
                               THEN filtered_tokens ELSE base_tokens)
        add_variant(variants, value) ==
            LET candidate == Strip(JoinSpace(Split(value)))
            IN  IF candidate # << >>
                   /\ \A k \in 1..Len(variants) : variants[k] # candidate
                THEN Append(variants, candidate)
                ELSE variants
        has_dolor == \E k \in 1..Len(filtered_tokens) :
                        filtered_tokens[k] = <<"d","o","l","o","r">>
        has_head_prefix == \E k \in 1..Len(filtered_tokens) :
                              StartsWith(filtered_tokens[k], <<"c","a","b","e">>)
        v0 == IF has_dolor /\ has_head_prefix
              THEN add_variant(add_variant(<< >>, <<"c","e","f","a","l","e","a">>), <<"m","i","g","r","a","ñ","a">>)
              ELSE << >>
    IN  add_variant(v0, collapsed)

(***************************************************************************)
(* Configuration (app/core/search_config.py).  The tuning values are read  *)
(* from the environment; the model runs the engine with small limits       *)
(* (SEARCH_DEFAULT_LIMIT, SEARCH_MAX_LIMIT, SEARCH_CANDIDATE_MULTIPLIER)   *)
(* so that trimming and the max_limit clamp happen on a store of a few     *)
(* rows.  Weights and threshold keep their defaults.                       *)
(***************************************************************************)
default_limit == 2

max_limit == 3

candidate_multiplier == 2

\* similarity_threshold = 0.20, in units of 1e-4
similarity_threshold == 2000

w_exact_match == 100

w_prefix_match == 50

w_description_match == 20

\* RankingWeights.similarity = 0.30, in hundredths
w_similarity == 30

w_priority_boost == 10

w_intent_bonus == 15

w_tag_match == 5

enable_intent_detection == TRUE

enable_search_logging == TRUE

(***************************************************************************)
(* The store: icd10_extended rows and the SQL expressions of               *)
(* ICD10ExtendedRepository.search_candidates.                              *)
(***************************************************************************)
\* func.coalesce(col, "")
Coalesce(x) == IF x = None THEN << >> ELSE x

Min(a, b) == IF a <= b THEN a ELSE b

Max(a, b) == IF a >= b THEN a ELSE b

DigitVal(c) ==
    CHOOSE n \in 0..9 : <<"0","1","2","3","4","5","6","7","8","9">>[n + 1] = c

RECURSIVE ParseNat(_)
ParseNat(s) ==
    IF s = << >> THEN 0
    ELSE 10 * ParseNat(SubSeq(s, 1, Len(s) - 1)) + DigitVal(s[Len(s)])

\* ICD10ExtendedRepository._priority_as_float, in tenths.  The numeric branch
\* covers the texts ^[0-9]+(\.[0-9])?$ ; other texts fall to the else branch.
priority_as_float(col) ==
    LET priority_text == Lower(Strip(Coalesce(col)))
        dot == IF \E i \in 1..Len(priority_text) : priority_text[i] = "."
               THEN CHOOSE i \in 1..Len(priority_text) : priority_text[i] = "."
               ELSE 0
    IN  IF priority_text = << >> THEN 0
        ELSE IF priority_text = <<"h","i","g","h">> THEN 10
        ELSE IF priority_text = <<"m","e","d","i","u","m">> THEN 6
        ELSE IF priority_text = <<"l","o","w">> THEN 2
        ELSE IF dot = 0 /\ AllDigits(priority_text)
             THEN 10 * ParseNat(priority_text)
        ELSE IF /\ dot > 1
                /\ Len(priority_text) = dot + 1
                /\ AllDigits(SubSeq(priority_text, 1, dot - 1))
                /\ priority_text[dot + 1] \in Digits
             THEN 10 * ParseNat(SubSeq(priority_text, 1, dot - 1))
                  + DigitVal(priority_text[dot + 1])
        ELSE 0

\* pg_trgm: the words of a text are its maximal alphanumeric runs, lowercased;
\* each word is padded with two blanks before and one after, and contributes
\* its three-character windows.
IsWordChar(c) ==
    c \in LowerLetters \cup UpperLetters \cup Digits \cup {"é", "ñ", "É", "Ñ"}

WordTrigrams(w) ==
    LET padded == <<" ", " ">> \o w \o <<" ">>
    IN  {SubSeq(padded, i, i + 2) : i \in 1..(Len(padded) - 2)}

Trigrams(s) ==
    LET words == Runs(Lower(s), IsWordChar, << >>, << >>)
    IN  UNION {WordTrigrams(words[i]) : i \in 1..Len(words)}

\* pg_trgm similarity(a, b) in units of 1e-4
similarity(a, b) ==
    LET ta == Trigrams(a)
        tb == Trigrams(b)
        shared == Cardinality(ta \cap tb)
        total == Cardinality(ta \cup tb)
    IN  IF total = 0 THEN 0 ELSE (10000 * shared) \div total

\* code_compact = replace(replace(upper(coalesce(code, '')), '.', ''), ' ', '')
code_compact(row) == RemoveChar(RemoveChar(Upper(Coalesce(row.code)), "."), " ")

\* lines 198-199: the repository's own classification of the query
repo_query_is_code(query, query_is_code) ==
    query_is_code \/ MatchICD_CODE_QUERY_RE(RemoveChar(Strip(query), " "))

\* lines 200-211: the scoring tokens of a query
scoring_tokens(query, query_is_code) ==
    IF repo_query_is_code(query, query_is_code) THEN << >>
    ELSE
        LET raw_tokens == Split(query)
            incomplete_last_token ==
                /\ query # << >>
                /\ query[Len(query)] # " "
                /\ raw_tokens # << >>
                /\ Len(raw_tokens[Len(raw_tokens)]) < 4
            scoring == IF incomplete_last_token
                       THEN SubSeq(raw_tokens, 1, Len(raw_tokens) - 1)
                       ELSE raw_tokens
            long_tokens == SelectSeq(scoring, LAMBDA t : Len(t) >= 4)
        IN  SubSeq(long_tokens, 1, Min(5, Len(long_tokens)))

\* use_similarity decided on the length of the query alone.
repo_use_similarity_by_length(query, query_is_code) == Len(query) >= 3

\* line 240 (force_no_similarity keeps its default, False)
repo_use_similarity(query, query_is_code) ==
    Len(query) >= 3 /\ ~repo_query_is_code(query, query_is_code)

\* lines 272-297
effective_min_hits(token_count, min_hits) ==
    IF token_count = 0 THEN 0
    ELSE IF token_count >= 2 /\ min_hits # NoInt
         THEN Max(1, Min(min_hits[1], token_count))
    ELSE IF token_count >= 2 THEN 2
    ELSE 1

\* The labelled columns of base_select for one row (lines 220-335).
row_signals(row, query, query_is_code) ==
    LET is_code == repo_query_is_code(query, query_is_code)
        compact_query == RemoveChar(Strip(query), " ")
        compact_code_query == Upper(RemoveChar(compact_query, "."))
        desc_norm == Coalesce(row.description_normalized)
        search_txt == Coalesce(row.search_text)
        tokens == scoring_tokens(query, query_is_code)
    IN  [code |-> row.code,
         similarity |->
            IF repo_use_similarity(query, query_is_code)
            THEN Max(similarity(desc_norm, query), similarity(search_txt, query))
            ELSE 0,
         priority |-> priority_as_float(row.priority),
         tags |-> Coalesce(row.tags),
         exact_code_match |-> is_code /\ code_compact(row) = compact_code_query,
         prefix_match |-> is_code /\ StartsWith(code_compact(row), compact_code_query),
         description_match |->
            IContains(desc_norm, query) \/ IContains(search_txt, query),
         token_hit_count |->
            Cardinality({i \in 1..Len(tokens) :
                IContains(desc_norm, tokens[i]) \/ IContains(search_txt, tokens[i])})]

\* The filter with the similarity match not gated by the token hits.
search_filter_similarity_alone(sig, query, query_is_code, min_hits) ==
    LET token_count == Len(scoring_tokens(query, query_is_code))
        sim_match == /\ repo_use_similarity(query, query_is_code)
                     /\ sig.similarity >= similarity_threshold
        token_hits_ok ==
            sig.token_hit_count >= effective_min_hits(token_count, min_hits)
    IN  IF repo_query_is_code(query, query_is_code)
        THEN sig.exact_code_match \/ sig.prefix_match
        ELSE sig.description_match \/ token_hits_ok \/ sim_match

\* search_filter (lines 337-353)
search_filter(sig, query, query_is_code, min_hits) ==
    LET token_count == Len(scoring_tokens(query, query_is_code))
        sim_match == /\ repo_use_similarity(query, query_is_code)
                     /\ sig.similarity >= similarity_threshold
        token_hits_ok ==
            sig.token_hit_count >= effective_min_hits(token_count, min_hits)
    IN  IF repo_query_is_code(query, query_is_code)
        THEN sig.exact_code_match \/ sig.prefix_match
        ELSE IF token_count >= 2
             THEN \/ sig.description_match
                  \/ token_hits_ok
                  \/ (sim_match /\ token_hits_ok)
        ELSE sig.description_match \/ sim_match

\* lines 360-363: tags_filter is None (<< >>) or a sequence of tags
tag_filter(sig, tags_filter) ==
    \/ tags_filter = << >>
    \/ \E i \in 1..Len(tags_filter) : IContains(sig.tags, tags_filter[i])

Bool01(b) == IF b THEN 1 ELSE 0

\* code_score / text_score (lines 309-322), in units of 1e-4
rank_score(sig, query, query_is_code) ==
    IF repo_query_is_code(query, query_is_code)
    THEN 30000 * Bool01(sig.exact_code_match)
         + 20000 * Bool01(sig.prefix_match)
         + 100 * sig.priority
    ELSE 30000 * Bool01(sig.exact_code_match)
         + 20000 * Bool01(sig.prefix_match)
         + 15000 * Bool01(sig.description_match)
         + 8000 * sig.token_hit_count
         + sig.similarity
         + 100 * sig.priority

\* Lexicographic comparison of two sort keys (sequences of integers).
RECURSIVE KeyGreater(_, _)
KeyGreater(a, b) ==
    IF a = << >> \/ b = << >> THEN FALSE
    ELSE IF Head(a) # Head(b) THEN Head(a) > Head(b)
    ELSE KeyGreater(Tail(a), Tail(b))

\* The order with the whole key reversed: key DESC, code DESC.
OrderedBefore_code_desc(x, y) ==
    \/ KeyGreater(x.key, y.key)
    \/ (x.key = y.key /\ StrLess(y.code, x.code))

\* ORDER BY key DESC, code ASC over a set of records [key, code, row].
OrderedBefore(x, y) ==
    \/ KeyGreater(x.key, y.key)
    \/ (x.key = y.key /\ StrLess(x.code, y.code))

RECURSIVE OrderBy(_)
OrderBy(S) ==
    IF S = {} THEN << >>
    ELSE LET first == CHOOSE x \in S : \A y \in S \ {x} : OrderedBefore(x, y)
         IN  <<first>> \o OrderBy(S \ {first})

\* LIMIT n (n >= 0)
Limit(seq, n) == SubSeq(seq, 1, Min(n, Len(seq)))

\* ExtendedICD10Candidate built from a result row (lines 481-494)
Candidate(sig) ==
    [code |-> sig.code,
     similarity |-> sig.similarity,
     priority |-> sig.priority,
     tags |-> sig.tags,
     exact_code_match |-> sig.exact_code_match,
     prefix_match |-> sig.prefix_match,
     description_match |-> sig.description_match]

\* result.all() (lines 396, 434): the rows of an ordered and limited result.
RowsOf(limited) == [i \in 1..Len(limited) |-> limited[i].row]

\* The rows of the primary statement (lines 324-363) on a table.
primary_rows(table, query, limit, tags_filter, query_is_code, min_hits) ==
    LET sigs == {row_signals(r, query, query_is_code) : r \in table}
        hits == {s \in sigs :
                    /\ search_filter(s, query, query_is_code, min_hits)
                    /\ tag_filter(s, tags_filter)}
        ordered == OrderBy({[key |-> <<rank_score(s, query, query_is_code)>>,
                             code |-> s.code,
                             row |-> Candidate(s)] : s \in hits})
    IN  RowsOf(Limit(ordered, limit))

\* The rows of fallback_stmt (lines 405-431) on a table.
fallback_rows(table, query, limit) ==
    LET compact_code_query ==
            Upper(RemoveChar(RemoveChar(Strip(query), " "), "."))
        sig(r) ==
            [code |-> r.code,
             similarity |-> 0,
             priority |-> priority_as_float(r.priority),
             tags |-> Coalesce(r.tags),
             exact_code_match |-> code_compact(r) = compact_code_query,
             prefix_match |-> StartsWith(code_compact(r), compact_code_query),
             description_match |-> FALSE]
        hits == {s \in {sig(r) : r \in table} : s.exact_code_match \/ s.prefix_match}
        ordered == OrderBy({[key |-> <<Bool01(s.exact_code_match),
                                       Bool01(s.prefix_match), s.priority>>,
                             code |-> s.code,
                             row |-> s] : s \in hits})
    IN  RowsOf(Limit(ordered, limit))

(***************************************************************************)
(* Ranking, trimming and parent/child grouping (ClinicalSearchEngine).     *)
(***************************************************************************)
\* The score of one candidate in _rank (lines 427-458), in units of 1e-4.
intent_aligned(c, intent) ==
    /\ intent # None /\ intent # << >>
    /\ c.tags # << >>
    /\ Contains(Lower(c.tags), intent)

\* The score with the tag bonus taken off instead of added.
candidate_score_tag_penalty(c, intent) ==
    10000 * w_exact_match * Bool01(c.exact_code_match)
    + 10000 * w_prefix_match * Bool01(c.prefix_match)
    + 10000 * w_description_match * Bool01(c.description_match)
    + c.similarity * w_similarity
    + 1000 * c.priority * w_priority_boost
    + 10000 * w_intent_bonus * Bool01(intent_aligned(c, intent))
    - 10000 * w_tag_match * Bool01(c.tags # << >>)

candidate_score(c, intent) ==
    10000 * w_exact_match * Bool01(c.exact_code_match)
    + 10000 * w_prefix_match * Bool01(c.prefix_match)
    + 10000 * w_description_match * Bool01(c.description_match)
    + c.similarity * w_similarity
    + 1000 * c.priority * w_priority_boost
    + 10000 * w_intent_bonus * Bool01(intent_aligned(c, intent))
    + 10000 * w_tag_match * Bool01(c.tags # << >>)

\* ClinicalSearchResult with its MatchFeatures (lines 460-493)
search_result(c, intent) ==
    [code |-> c.code,
     score |-> candidate_score(c, intent),
     source |-> "icd10_extended",
     exact_code |-> c.exact_code_match,
     prefix_code |-> c.prefix_match,
     description_match |-> c.description_match,
     trigram_similarity |-> c.similarity,
     priority |-> c.priority,
     intent_aligned |-> intent_aligned(c, intent),
     tag_matched |-> c.tags # << >>]

\* The sort key of line 495: (-score, code)
rank_key(r) == <<r.score>>

\* ClinicalSearchEngine._rank
rank(candidates, intent) ==
    LET scored == {[key |-> rank_key(search_result(candidates[i], intent)),
                    code |-> candidates[i].code,
                    row |-> search_result(candidates[i], intent)] :
                      i \in 1..Len(candidates)}
        ordered == OrderBy(scored)
    IN  [i \in 1..Len(ordered) |-> ordered[i].row]

\* seq[:n] of Python, for any integer n
SlicePrefix(seq, n) ==
    IF n >= 0 THEN SubSeq(seq, 1, Min(n, Len(seq)))
    ELSE SubSeq(seq, 1, Max(0, Len(seq) + n))

\* The ranked list returned without the slice.
trim_skipped(ranked, effective_limit) == ranked

\* line 245
trim(ranked, effective_limit) == SlicePrefix(ranked, effective_limit)

\* lines 255-259: the key under which a result is filed as a child, or None
group_code(result) == Strip(Upper(result.code))

is_parent(result) == Len(group_code(result)) = 3

child_parent_key(result) ==
    LET code == group_code(result)
    IN  IF Len(code) > 4 /\ StartsWith(code, SubSeq(code, 1, 3) \o <<".">>)
        THEN SubSeq(code, 1, 3)
        ELSE None

\* parent_map.get(code, []) as the positions of the children, in list order
children_of(results, code) ==
    SelectSeq([i \in 1..Len(results) |-> i],
              LAMBDA i : child_parent_key(results[i]) = code)

\* Append the positions of ps that are not yet in acc (the added_ids test).
RECURSIVE AddNew(_, _)
AddNew(acc, ps) ==
    IF ps = << >> THEN acc
    ELSE IF \E k \in 1..Len(acc) : acc[k] = Head(ps)
         THEN AddNew(acc, Tail(ps))
         ELSE AddNew(Append(acc, Head(ps)), Tail(ps))

\* lines 263-279: one pass over the results, as positions
RECURSIVE GroupPass(_, _, _)
GroupPass(results, i, acc) ==
    IF i > Len(results) THEN acc
    ELSE IF is_parent(results[i])
         THEN GroupPass(results, i + 1,
                  AddNew(AddNew(acc, <<i>>),
                         children_of(results, group_code(results[i]))))
         ELSE GroupPass(results, i + 1, AddNew(acc, <<i>>))

\* Append the positions of ps whose code is not yet among those of acc.
RECURSIVE AddNewCode(_, _, _)
AddNewCode(results, acc, ps) ==
    IF ps = << >> THEN acc
    ELSE IF \E k \in 1..Len(acc) : group_code(results[acc[k]]) = group_code(results[Head(ps)])
         THEN AddNewCode(results, acc, Tail(ps))
         ELSE AddNewCode(results, Append(acc, Head(ps)), Tail(ps))

\* The grouping that tells results apart by their code and takes the grouped
\* list whatever its length.
group_results_by_code(results) ==
    LET parent_detected == \E i \in 1..Len(results) : is_parent(results[i])
        grouped == AddNewCode(results, << >>, GroupPass(results, 1, << >>))
    IN  IF parent_detected
        THEN [k \in 1..Len(grouped) |-> results[grouped[k]]]
        ELSE results

\* lines 247-284
group_results(results) ==
    LET parent_detected == \E i \in 1..Len(results) : is_parent(results[i])
        grouped == GroupPass(results, 1, << >>)
    IN  IF parent_detected /\ Len(grouped) = Len(results)
        THEN [k \in 1..Len(grouped) |-> results[grouped[k]]]
        ELSE results

(***************************************************************************)
(* Bounded inputs.                                                         *)
(***************************************************************************)
\* Rows every table of the model holds (code is the primary key).
FixedRows ==
    {[code |-> <<"R","5","2">>, description_normalized |-> <<"d","o","l","o","r"," ","c","r","o","n","i","c","o">>,
      search_text |-> None, priority |-> <<"l","o","w">>, tags |-> <<"p","a","i","n">>],
     [code |-> <<"E","1","1">>, description_normalized |-> <<"d","i","a","b","e","t","e","s"," ","m","e","l","l","i","t","u","s"," ","t","i","p","o"," ","2">>,
      search_text |-> <<"d","m","2","|","d","i","a","b","e","t","e","s"," ","t","i","p","o"," ","2">>, priority |-> <<"1">>,
      tags |-> <<"e","n","d","o","c","r","i","n","e",",","c","a","r","d","i","o","m","e","t","a","b","o","l","i","c">>],
     [code |-> <<"E","1","1",".","9">>, description_normalized |-> <<"d","i","a","b","e","t","e","s"," ","t","i","p","o"," ","2"," ","s","i","n"," ","c","o","m","p","l","i","c","a","c","i","o","n">>,
      search_text |-> <<"d","m","2">>, priority |-> <<"m","e","d","i","u","m">>, tags |-> <<"c","a","r","d","i","o","m","e","t","a","b","o","l","i","c">>]}

\* Rows a table of the model may or may not hold.
OptionalRows ==
    {[code |-> <<"G","4","4">>, description_normalized |-> <<"c","e","f","a","l","e","a">>,
      search_text |-> <<"c","e","f","a","l","e","a">>, priority |-> <<"h","i","g","h">>,
      tags |-> <<"n","e","u","r","o","l","o","g","i","c","a","l">>],
     [code |-> <<"G","4","4",".","2">>, description_normalized |-> <<"c","e","f","a","l","e","a"," ","t","e","n","s","i","o","n","a","l">>,
      search_text |-> <<"d","o","l","o","r"," ","c","a","b","e","z","a">>, priority |-> None, tags |-> None],
     [code |-> <<"G","4","3">>, description_normalized |-> <<"m","i","g","r","a","n","a">>,
      search_text |-> <<"c","e","f","a","l","e","a"," ","t","e","n","s","i","o","n","a","l">>, priority |-> <<"0">>, tags |-> << >>]}

ExtendedRows == FixedRows \cup OptionalRows

Tables == {FixedRows \cup opt : opt \in SUBSET OptionalRows}

\* Raw queries a caller sends.
RawQueries ==
    {<< >>, <<" "," ">>, <<"-","-">>, <<"E","1","1">>, <<"e","1","1",".","9">>, <<" ","C","e","f","a","l","é","a"," ">>,
     <<"d","o","l","o","r"," ","d","e"," ","c","a","b","e","z","a">>, <<"d","i","a","b","e","t","e","s"," ","t","i","p","o"," ","2">>, <<"d","e"," ","l","a">>, <<"x","q","x","q">>,
     <<"d","e"," ","a","1">>, <<"d","m">>, <<"d","m","2">>}

\* Requested limits: absent, zero, negative, within and above max_limit.
Limits == {NoInt, Some(0), Some(-1), Some(1), Some(max_limit + 1)}

TagFilters == {<< >>, << <<"n","e","u","r","o","l","o","g","i","c","a","l">> >>}

(***************************************************************************)
(* State.                                                                  *)
(***************************************************************************)
VARIABLES
    table,            \* the rows of icd10_extended
    pc,               \* position of the request inside ClinicalSearchEngine.search
    raw_query,        \* arguments of search
    limit,
    tags_filter,
    effective_limit,  \* locals of search
    candidate_limit,
    is_code_query,
    normalized,
    intent,
    search_attempts,
    attempt,          \* index of the attempt of the for loop (line 209)
    candidates,
    results,          \* the list search returns
    outcome,          \* "none", "returned" or "raised"
    stmts,            \* history: the statements this request sent to the store
    raised,           \* history: the store calls and log writes that raised
    events,           \* history: the SearchEvents this request emitted
    icd10,            \* the codes of the icd10 table
    search_log,       \* the rows of clinical_search_logs, in insertion order
    response,         \* what the last HTTP handler or service call gave its caller
    recorded,         \* history: <<code, user_id, query>> of every record_selection that succeeded
    reqs,             \* the search requests of two concurrent callers
    table_cache,      \* _table_cache: the bind keys that have their Table object
    probe,            \* a pure function applied on its own: its argument and value
    boot              \* the run of startup_bootstrap.main

logVars == <<icd10, search_log, response, recorded>>

auxVars == <<reqs, table_cache, probe, boot>>

storeVars == <<table, logVars, auxVars>>

argVars == <<raw_query, limit, tags_filter>>

localVars == <<effective_limit, candidate_limit, is_code_query, normalized,
               intent, search_attempts>>

engineVars == <<pc, raw_query, limit, tags_filter, effective_limit,
                candidate_limit, is_code_query, normalized, intent,
                search_attempts, attempt, candidates, results, outcome, stmts,
                raised, events>>

vars == <<table, engineVars, logVars, auxVars>>

(***************************************************************************)
(* ClinicalSearchEngine.search, one action per store suspension point.     *)
(***************************************************************************)
\* line 155: min(limit or default_limit, max_limit)
effective_limit_of(l) ==
    Min(IF l = NoInt \/ l[1] = 0 THEN default_limit ELSE l[1], max_limit)

\* The plan with the relaxed attempt appended for every query.
build_search_attempts_relax_always(query_for_repo, is_code) ==
    LET variants == expand_query_variants(query_for_repo)
        expanded == SelectSeq(variants, LAMBDA v : v # query_for_repo)
    IN  << [query |-> query_for_repo, min_hits |-> NoInt, kind |-> "base"] >>
        \o (IF is_code THEN << >>
            ELSE [i \in 1..Len(expanded) |->
                    [query |-> expanded[i], min_hits |-> NoInt, kind |-> "expanded"]])
        \o << [query |-> query_for_repo, min_hits |-> Some(1),
                kind |-> "relaxed_min_hits"] >>

\* lines 200-207
build_search_attempts(query_for_repo, is_code) ==
    LET variants == expand_query_variants(query_for_repo)
        expanded == SelectSeq(variants, LAMBDA v : v # query_for_repo)
    IN  << [query |-> query_for_repo, min_hits |-> NoInt, kind |-> "base"] >>
        \o (IF is_code THEN << >>
            ELSE [i \in 1..Len(expanded) |->
                    [query |-> expanded[i], min_hits |-> NoInt, kind |-> "expanded"]])
        \o (IF ~is_code /\ Len(Split(query_for_repo)) >= 2
            THEN << [query |-> query_for_repo, min_hits |-> Some(1),
                     kind |-> "relaxed_min_hits"] >>
            ELSE << >>)

\* The codes loaded into icd10 (the base table of the selection endpoint).
ICD10Codes == {<<"E","1","1">>, <<"E","1","1",".","9">>, <<"R","5","2">>}

\* No handler has answered yet.
NoResponse ==
    [handler |-> "none", status |-> 0, log_write |-> "none",
     top_ranked |-> << >>, results |-> << >>]

\* The callers that may have a search request in flight at the same time.
Requests == {1, 2}

\* A caller with no request in flight: the locals of search before line 154.
IdleRequest ==
    [pc |-> "idle", raw_query |-> << >>, limit |-> NoInt, tags_filter |-> << >>,
     is_code_query |-> FALSE, normalized |-> << >>, intent |-> None,
     search_attempts |-> << >>, attempt |-> 0, candidates |-> << >>,
     results |-> << >>, outcome |-> "none", failed |-> FALSE]

\* No function is applied on its own.
NoProbe == [fn |-> "none", arg |-> << >>, val |-> << >>]

\* startup_bootstrap has not been started.
NoBoot == [pc |-> "idle"]

InitProgram ==
    /\ table \in Tables
    /\ reqs = [r \in Requests |-> IdleRequest]
    /\ table_cache = {}
    /\ icd10 = ICD10Codes
    /\ search_log = << >>
    /\ response = NoResponse
    /\ recorded = {}
    /\ pc = "idle"
    /\ raw_query = << >>
    /\ limit = NoInt
    /\ tags_filter = << >>
    /\ effective_limit = 0
    /\ candidate_limit = 0
    /\ is_code_query = FALSE
    /\ normalized = << >>
    /\ intent = None
    /\ search_attempts = << >>
    /\ attempt = 0
    /\ candidates = << >>
    /\ results = << >>
    /\ outcome = "none"
    /\ stmts = << >>
    /\ raised = {}
    /\ events = << >>

Init == InitProgram /\ probe = NoProbe /\ boot = NoBoot

\* lines 154-207: the synchronous prefix of search, up to the first await
Search(q, l, tf) ==
    /\ pc = "idle"
    /\ raw_query' = q
    /\ limit' = l
    /\ tags_filter' = tf
    /\ effective_limit' = effective_limit_of(l)
    /\ candidate_limit' = effective_limit_of(l) * candidate_multiplier
    /\ LET raw_direct == Strip(q)
           is_code == is_code_query_of(raw_direct)
           norm == IF is_code THEN normalize_code_query(raw_direct)
                   ELSE normalize_query(q)
       IN  /\ is_code_query' = is_code
           /\ normalized' = norm
           /\ IF ~is_code /\ norm = << >>
              THEN \* lines 179-181: return []
                   /\ intent' = None
                   /\ search_attempts' = << >>
                   /\ attempt' = 0
                   /\ outcome' = "returned"
                   /\ pc' = "done"
              ELSE /\ intent' = IF is_code \/ ~enable_intent_detection THEN None
                                ELSE detect_intent(norm)
                   /\ search_attempts' = build_search_attempts(norm, is_code)
                   /\ attempt' = 1
                   /\ outcome' = "none"
                   /\ pc' = "execute"
    /\ candidates' = << >>
    /\ results' = << >>
    /\ stmts' = << >>
    /\ raised' = {}
    /\ events' = << >>
    /\ UNCHANGED storeVars

\* The record of a statement sent to the store; rows is the number of rows it
\* returned, or -1 when it raised.
Stmt(kind, rows) ==
    LET a == search_attempts[attempt]
    IN  [kind |-> kind, attempt |-> attempt, query |-> a.query,
         min_hits |-> a.min_hits, rows |-> rows,
         query_is_code |-> repo_query_is_code(a.query, is_code_query),
         use_similarity |-> kind # "fallback"
                            /\ repo_use_similarity(a.query, is_code_query)]

\* search_candidates has its rows (line 443) from the statement of the given
\* kind: a non-empty list is returned to the loop of search, which breaks
\* (lines 225-228); an empty one goes through the diagnostics first (lines
\* 461-479).
HaveRows(kind, rows) ==
    /\ stmts' = Append(stmts, Stmt(kind, Len(rows)))
    /\ candidates' = rows
    /\ pc' = IF rows = << >> THEN "diag_count" ELSE "rank"
    /\ UNCHANGED attempt

\* search_candidates returned [] : next attempt of the loop, or leave it.
AttemptEmpty ==
    /\ candidates' = << >>
    /\ IF attempt < Len(search_attempts)
       THEN attempt' = attempt + 1 /\ pc' = "execute"
       ELSE attempt' = attempt /\ pc' = "rank"

\* A LIMIT below zero is rejected by PostgreSQL.
StoreAccepts(n) == n >= 0

\* line 395: await self._db.execute(stmt, params) of the primary statement
ExecutePrimary ==
    /\ pc = "execute"
    /\ \/ /\ StoreAccepts(candidate_limit)
          /\ HaveRows("primary",
                      primary_rows(table, search_attempts[attempt].query,
                                   candidate_limit, tags_filter, is_code_query,
                                   search_attempts[attempt].min_hits))
          /\ UNCHANGED raised
       \/ /\ pc' = "repo_rollback"
          /\ stmts' = Append(stmts, Stmt("primary", -1))
          /\ raised' = raised \cup {"primary"}
          /\ UNCHANGED <<candidates, attempt>>
    /\ UNCHANGED <<storeVars, argVars, localVars, results, outcome, events>>

\* lines 398-401: rollback after a failed primary statement; a failure of the
\* rollback is logged and swallowed
RepoRollback ==
    /\ pc = "repo_rollback"
    /\ pc' = "fallback"
    /\ \/ UNCHANGED raised
       \/ raised' = raised \cup {"repo_rollback"}
    /\ UNCHANGED <<storeVars, argVars, localVars, attempt, candidates, results,
                   outcome, stmts, events>>

\* lines 432-434: the code-only fallback statement
ExecuteFallback ==
    /\ pc = "fallback"
    /\ \/ /\ StoreAccepts(candidate_limit)
          /\ HaveRows("fallback",
                      fallback_rows(table, search_attempts[attempt].query,
                                    candidate_limit))
          /\ UNCHANGED raised
       \/ /\ pc' = "fallback_rollback"
          /\ stmts' = Append(stmts, Stmt("fallback", -1))
          /\ raised' = raised \cup {"fallback"}
          /\ UNCHANGED <<candidates, attempt>>
    /\ UNCHANGED <<storeVars, argVars, localVars, results, outcome, events>>

\* lines 435-441: rollback after a failed fallback, then return []
FallbackRollback ==
    /\ pc = "fallback_rollback"
    /\ AttemptEmpty
    /\ \/ UNCHANGED raised
       \/ raised' = raised \cup {"fallback_rollback"}
    /\ UNCHANGED <<storeVars, argVars, localVars, results, outcome, stmts, events>>

\* line 466: the diagnostic count, outside any try of search_candidates
DiagnosticCount ==
    /\ pc = "diag_count"
    /\ \/ /\ pc' = "diag_top"
          /\ stmts' = Append(stmts, Stmt("diag_count", 1))
          /\ UNCHANGED raised
       \/ /\ pc' = "engine_rollback"
          /\ stmts' = Append(stmts, Stmt("diag_count", -1))
          /\ raised' = raised \cup {"diag_count"}
    /\ UNCHANGED <<storeVars, argVars, localVars, attempt, candidates, results,
                   outcome, events>>

\* line 473: the diagnostic top-similarity query, then return [] (line 481)
DiagnosticTop ==
    /\ pc = "diag_top"
    /\ \/ /\ AttemptEmpty
          /\ stmts' = Append(stmts, Stmt("diag_top", Min(3, Cardinality(table))))
          /\ UNCHANGED raised
       \/ /\ pc' = "engine_rollback"
          /\ stmts' = Append(stmts, Stmt("diag_top", -1))
          /\ raised' = raised \cup {"diag_top"}
          /\ UNCHANGED <<candidates, attempt>>
    /\ UNCHANGED <<storeVars, argVars, localVars, results, outcome, events>>

\* The event built before the ranking has its results.
search_event_before_rank(res) ==
    [query_raw |-> raw_query, query_normalized |-> normalized,
     intent |-> intent, source |-> "icd10_extended",
     candidate_count |-> Len(candidates), result_count |-> 0,
     top_code |-> None]

\* SearchEvent (lines 289-299)
search_event(res) ==
    [query_raw |-> raw_query, query_normalized |-> normalized,
     intent |-> intent, source |-> "icd10_extended",
     candidate_count |-> Len(candidates), result_count |-> Len(res),
     top_code |-> IF res # << >> THEN res[1].code ELSE None]

\* lines 242-284: rank, trim, group
final_results(cands, intent_, eff_limit) ==
    group_results(trim(rank(cands, intent_), eff_limit))

\* lines 241-314: rank, trim, group, emit the event and return.  The log
\* write of _emit_search_event may raise; the exception is swallowed there.
RankAndReturn ==
    /\ pc = "rank"
    /\ results' = final_results(candidates, intent, effective_limit)
    /\ \/ /\ enable_search_logging
          /\ events' = Append(events,
                search_event(final_results(candidates, intent, effective_limit)))
          /\ UNCHANGED raised
       \/ /\ enable_search_logging
          /\ raised' = raised \cup {"log_write"}
          /\ UNCHANGED events
       \/ /\ ~enable_search_logging
          /\ UNCHANGED <<events, raised>>
    /\ outcome' = "returned"
    /\ pc' = "done"
    /\ UNCHANGED <<storeVars, argVars, localVars, attempt, candidates, stmts>>

\* The handler with the rollback outside a try of its own.
EngineRollback_unguarded ==
    /\ pc = "engine_rollback"
    /\ \/ /\ outcome' = "returned"
          /\ UNCHANGED raised
       \/ /\ outcome' = "raised"
          /\ raised' = raised \cup {"engine_rollback"}
    /\ results' = << >>
    /\ pc' = "done"
    /\ UNCHANGED <<storeVars, argVars, localVars, attempt, candidates, stmts, events>>

\* lines 315-326: the handler of any exception of the try block
EngineRollback ==
    /\ pc = "engine_rollback"
    /\ \/ UNCHANGED raised
       \/ raised' = raised \cup {"engine_rollback"}
    /\ results' = << >>
    /\ outcome' = "returned"
    /\ pc' = "done"
    /\ UNCHANGED <<storeVars, argVars, localVars, attempt, candidates, stmts, events>>

\* The caller has the list; the next request may start.
Respond ==
    /\ pc = "done"
    /\ pc' = "idle"
    /\ raw_query' = << >>
    /\ limit' = NoInt
    /\ tags_filter' = << >>
    /\ effective_limit' = 0
    /\ candidate_limit' = 0
    /\ is_code_query' = FALSE
    /\ normalized' = << >>
    /\ intent' = None
    /\ search_attempts' = << >>
    /\ attempt' = 0
    /\ candidates' = << >>
    /\ results' = << >>
    /\ outcome' = "none"
    /\ stmts' = << >>
    /\ raised' = {}
    /\ events' = << >>
    /\ UNCHANGED storeVars

Next ==
    \/ \E q \in RawQueries, l \in Limits, tf \in TagFilters : Search(q, l, tf)
    \/ ExecutePrimary
    \/ RepoRollback
    \/ ExecuteFallback
    \/ FallbackRollback
    \/ DiagnosticCount
    \/ DiagnosticTop
    \/ RankAndReturn
    \/ EngineRollback
    \/ Respond

Spec == Init /\ [][Next]_vars

(***************************************************************************)
(* Properties of ClinicalSearchEngine.search.                              *)
(***************************************************************************)
Range(seq) == {seq[i] : i \in 1..Len(seq)}

\* C1: search called with the empty string or a whitespace-only string
\* returns the empty list and sends no statement to the store.
C1_EmptyQuerySafety ==
    (pc # "idle" /\ Strip(raw_query) = << >>) =>
        /\ pc = "done"
        /\ outcome = "returned"
        /\ results = << >>
        /\ stmts = << >>

\* A whitespace-only query has been answered.
C1_Witness ==
    /\ pc = "done"
    /\ raw_query = <<" ", " ">>
    /\ outcome = "returned"
    /\ results = << >>

\* The limit as the claim reads it: an absent limit stands for default_limit.
requested_limit == IF limit = NoInt THEN default_limit ELSE limit[1]

\* C2 as stated: for any requested limit (absent, zero, negative or
\* positive) the number of results is at most min(limit, max_limit).
C2_Original ==
    (pc = "done" /\ outcome = "returned") =>
        Len(results) <= Min(requested_limit, max_limit)

\* C2 amended: the number of results is at most min(limit, max_limit) for a
\* limit of 1 or more, at most min(default_limit, max_limit) for an absent or
\* zero limit (zero counts as absent), and zero for a negative limit.
C2_Cardinality ==
    (pc = "done" /\ outcome = "returned") =>
        Len(results) <=
            IF limit = NoInt \/ limit[1] = 0 THEN Min(default_limit, max_limit)
            ELSE IF limit[1] < 0 THEN 0
            ELSE Min(limit[1], max_limit)

\* A request with limit 1 whose retrieval had two candidates returned one.
C2_Witness ==
    /\ pc = "done"
    /\ limit = Some(1)
    /\ Len(candidates) = 2
    /\ Len(results) = 1

\* C3 as stated: in the returned list (after grouping) any two results with
\* equal score appear in ascending order of code.
C3_Original ==
    (pc = "done") =>
        \A i, j \in 1..Len(results) :
            (i < j /\ results[i].score = results[j].score) =>
                StrLess(results[i].code, results[j].code)

\* The result at position i is a child that follows its 3-character parent.
GroupedChild(i) ==
    /\ child_parent_key(results[i]) # None
    /\ \E k \in 1..(i - 1) :
          /\ is_parent(results[k])
          /\ group_code(results[k]) = child_parent_key(results[i])

\* C3 amended: in the returned list any two results with equal score appear
\* in ascending order of code, except that a child code (XXX.*) which the
\* grouping placed behind its 3-character parent may precede an equal-score
\* result with a smaller code.
C3_TieBreak ==
    (pc = "done") =>
        \A i, j \in 1..Len(results) :
            (i < j /\ results[i].score = results[j].score) =>
                \/ StrLess(results[i].code, results[j].code)
                \/ GroupedChild(i)

\* Two results with equal score were returned, in ascending order of code.
C3_Witness ==
    /\ pc = "done"
    /\ \E i, j \in 1..Len(results) :
          /\ i < j
          /\ results[i].score = results[j].score
          /\ StrLess(results[i].code, results[j].code)

\* C4: for a query that the code regex classifies as an ICD-10 code, no intent
\* is detected (intent is None) and no statement computes similarity: every
\* candidate and every result has similarity 0.
C4_CodeQueryBypass ==
    (pc # "idle" /\ is_code_query_of(Strip(raw_query))) =>
        /\ intent = None
        /\ \A s \in Range(stmts) : ~s.use_similarity
        /\ \A c \in Range(candidates) : c.similarity = 0
        /\ \A r \in Range(results) : r.trigram_similarity = 0

\* A code query was answered with candidates.
C4_Witness ==
    /\ pc = "done"
    /\ is_code_query_of(Strip(raw_query))
    /\ candidates # << >>
    /\ results # << >>

\* Attempt k of the retry plan yields candidates from the store, and its
\* statement, where search sent it, did not fail.
AttemptYields(k) ==
    LET a == search_attempts[k]
    IN  /\ StoreAccepts(candidate_limit)
        /\ primary_rows(table, a.query, candidate_limit, tags_filter,
                        is_code_query, a.min_hits) # << >>
        /\ \A s \in Range(stmts) :
              (s.attempt = k /\ s.kind = "primary") => s.rows >= 0

\* C5: for a natural-language request with an effective limit >= 1, if at
\* least one attempt of the retry plan would yield candidates, search returns
\* a non-empty list, whatever the earlier attempts returned or however they
\* failed.
C5_NeverEmptyWhenCandidatesExist ==
    (/\ pc = "done"
     /\ ~is_code_query
     /\ effective_limit >= 1
     /\ \E k \in 1..Len(search_attempts) : AttemptYields(k))
        => results # << >>

\* The primary statements of the request, in the order they were sent.
PrimaryStmts == SelectSeq(stmts, LAMBDA s : s.kind = "primary")

\* The retry plan as the claim gives it (the relaxed attempt exists for a
\* base query of two or more tokens).
RetryPlan ==
    LET variants == expand_query_variants(normalized)
        others == SelectSeq(variants, LAMBDA v : v # normalized)
    IN  << [query |-> normalized, min_hits |-> NoInt] >>
        \o [i \in 1..Len(others) |-> [query |-> others[i], min_hits |-> NoInt]]
        \o (IF Len(Split(normalized)) >= 2
            THEN << [query |-> normalized, min_hits |-> Some(1)] >>
            ELSE << >>)

\* The rows the statements of attempt k returned to search (0 when none did).
AttemptYield(k) ==
    LET mine == {i \in 1..Len(stmts) :
                    /\ stmts[i].attempt = k
                    /\ stmts[i].kind \in {"primary", "fallback"}
                    /\ stmts[i].rows > 0}
    IN  IF mine = {} THEN 0 ELSE stmts[CHOOSE i \in mine : TRUE].rows

\* C6: for a natural-language query the attempts are issued in the order
\* base, expanded variants different from the base, base with min_hits
\* relaxed to 1; the request stops at the first attempt that yields a
\* candidate (and at no attempt before it), issues none after it, and ranks
\* exactly the candidates of that attempt.
C6_RetryOrder ==
    (pc = "done" /\ ~is_code_query /\ normalized # << >>) =>
        LET n == Len(PrimaryStmts)
        IN  /\ n >= 1 /\ n <= Len(RetryPlan)
            /\ \A k \in 1..n :
                  /\ PrimaryStmts[k].attempt = k
                  /\ PrimaryStmts[k].query = RetryPlan[k].query
                  /\ PrimaryStmts[k].min_hits = RetryPlan[k].min_hits
            /\ \A k \in 1..(n - 1) : AttemptYield(k) = 0
            /\ \/ AttemptYield(n) > 0
               \/ n = Len(RetryPlan)
            /\ Len(candidates) = AttemptYield(n)
            /\ results = final_results(candidates, intent, effective_limit)

\* C7: search never raises: whatever store call raised (statement, fallback,
\* diagnostic or rollback), the request ends by returning a list.
C7_NeverRaises ==
    /\ outcome \in {"none", "returned"}
    /\ (pc = "done") => outcome = "returned"
    /\ (pc = "done" /\ raised \cap {"diag_count", "diag_top"} # {}) =>
            results = << >>

StoreCalls ==
    {"primary", "repo_rollback", "fallback", "fallback_rollback",
     "diag_count", "diag_top", "engine_rollback"}

\* A request in which a statement and the rollback of search both raised has
\* returned a list.
C7_Witness ==
    /\ pc = "done"
    /\ outcome = "returned"
    /\ {"primary", "engine_rollback"} \subseteq raised

(***************************************************************************)
(* The search log: POST /icd10/select, POST /search/log and                *)
(* ClinicalSearchService.search, each handler one action (the handlers run *)
(* on a synchronous session, one statement after the other).               *)
(***************************************************************************)
\* The longest search log of the model.
MaxLog == 2

\* A row of clinical_search_logs (id and created_at are set by the store).
ClinicalSearchLog(user_id, query, normalized_query, selected_term, selected_icd, session_id, specialty) ==
    [user_id |-> user_id, query |-> query, normalized_query |-> normalized_query,
     selected_term |-> selected_term, selected_icd |-> selected_icd,
     session_id |-> session_id, specialty |-> specialty]

\* Python truthiness of an Optional[str].
Truthy(s) == s # None /\ s # << >>

\* schemas.icd10_selection._ICD10_CODE_RE = ^[A-Z0-9][A-Z0-9\.]{1,9}$
MatchSelectionCodeRE(code) ==
    /\ Len(code) >= 2 /\ Len(code) <= 10
    /\ code[1] \in UpperLetters \cup Digits
    /\ \A i \in 2..Len(code) : code[i] \in UpperLetters \cup Digits \cup {"."}

\* ICD10SelectionRequest._strip_text: the cleaned value, or None when the
\* validator raises.
strip_text(value) ==
    IF value = None \/ Strip(value) = << >> THEN None ELSE Strip(value)

\* ICD10SelectionRequest._normalize_selected_icd: the cleaned code, or None
\* when the validator raises.
normalize_selected_icd(value) ==
    IF value = None THEN None
    ELSE LET code == Upper(Strip(value))
         IN  IF code = << >> \/ ~MatchSelectionCodeRE(code) THEN None ELSE code

\* ICD10SelectionRequest._strip_optional
strip_optional(value) ==
    IF value = None \/ Strip(value) = << >> THEN None ELSE Strip(value)

\* ICD10SelectionRepository.icd10_exists
icd10_exists(codes, code) == code \in codes

\* The row added without the user of the request.
insert_selection_log_anonymous(original_query, normalized_query, selected_icd, user_id, session_id) ==
    ClinicalSearchLog(None, original_query, normalized_query, selected_icd,
                      selected_icd, session_id, None)

\* ICD10SelectionRepository.insert_selection_log: the row it adds.
insert_selection_log(original_query, normalized_query, selected_icd, user_id, session_id) ==
    ClinicalSearchLog(user_id, original_query, normalized_query, selected_icd,
                      selected_icd, session_id, None)

\* ClinicalSearchRepository.get_usage_stats: a function from the codes that
\* have rows to their UsageStats.
get_usage_stats(log, codes, user_id) ==
    LET rows(c) == {i \in 1..Len(log) : log[i].selected_icd = c}
        grouped == {c \in Range(codes) : c # << >> /\ rows(c) # {}}
    IN  [c \in grouped |->
            [global_frequency |-> Cardinality(rows(c)),
             user_frequency |->
                IF user_id # None
                THEN Cardinality({i \in rows(c) : log[i].user_id = user_id})
                ELSE 0]]

\* What a handler other than the search gives back.
Status(handler, code) ==
    [handler |-> handler, status |-> code, log_write |-> "none",
     top_ranked |-> << >>, results |-> << >>]

\* POST /icd10/select: select_icd10, the request schema and
\* ICD10SelectionService.record_selection.
RecordSelection(original_query, normalized_query, selected_icd, user_id, session_id) ==
    LET p_original == strip_text(original_query)
        p_normalized == strip_text(normalized_query)
        p_icd == normalize_selected_icd(selected_icd)
        p_user == strip_optional(user_id)
        p_session == strip_optional(session_id)
        valid == p_original # None /\ p_normalized # None /\ p_icd # None
        code == Upper(Strip(p_icd))
        row == insert_selection_log(Strip(p_original), normalize_text(p_normalized),
                                    code, p_user, p_session)
    IN  /\ Len(search_log) < MaxLog
        /\ \/ /\ ~valid
              /\ response' = Status("select", 422)
              /\ UNCHANGED <<search_log, recorded>>
           \/ /\ valid /\ normalize_text(p_normalized) = << >>
              /\ response' = Status("select", 422)
              /\ UNCHANGED <<search_log, recorded>>
           \/ /\ valid /\ normalize_text(p_normalized) # << >>
              /\ ~icd10_exists(icd10, code)
              /\ response' = Status("select", 404)
              /\ UNCHANGED <<search_log, recorded>>
           \/ \* icd10_exists or the insert raises: rollback, 500
              /\ valid /\ normalize_text(p_normalized) # << >>
              /\ response' = Status("select", 500)
              /\ UNCHANGED <<search_log, recorded>>
           \/ \* db.commit() went through, db.refresh(row) raises: 500
              /\ valid /\ normalize_text(p_normalized) # << >>
              /\ icd10_exists(icd10, code)
              /\ search_log' = Append(search_log, row)
              /\ response' = Status("select", 500)
              /\ UNCHANGED recorded
           \/ /\ valid /\ normalize_text(p_normalized) # << >>
              /\ icd10_exists(icd10, code)
              /\ search_log' = Append(search_log, row)
              /\ recorded' = recorded \cup {<<code, p_user, Strip(p_original)>>}
              /\ response' = Status("select", 201)
        /\ UNCHANGED <<table, icd10, engineVars, auxVars>>

\* POST /search/log: log_search and its SearchLogIn schema.
LogSearch(query, selected_term, selected_icd, specialty, user_id) ==
    LET original_query == Strip(query)
        normalized_query == normalize_text(original_query)
        term == IF Truthy(selected_term) THEN Lower(Strip(selected_term)) ELSE None
        icd == IF Truthy(selected_icd) THEN Upper(Strip(selected_icd)) ELSE None
        spec == IF specialty # None THEN Strip(specialty) ELSE None
        user == IF user_id # None THEN Strip(user_id) ELSE None
        rejected ==
            \/ original_query = << >>
            \/ normalized_query = << >>
            \/ (~Truthy(term) /\ ~Truthy(icd))
            \/ (spec # None /\ spec = << >>)
            \/ (user # None /\ user = << >>)
        row == ClinicalSearchLog(user, original_query, normalized_query,
                                 IF Truthy(term) THEN term ELSE icd,
                                 icd, None, spec)
    IN  /\ Len(search_log) < MaxLog
        /\ \/ /\ Len(query) < 1
              /\ response' = Status("log", 422)
              /\ UNCHANGED search_log
           \/ /\ Len(query) >= 1 /\ rejected
              /\ response' = Status("log", 400)
              /\ UNCHANGED search_log
           \/ /\ Len(query) >= 1 /\ ~rejected
              /\ search_log' = Append(search_log, row)
              /\ response' = Status("log", 200)
           \/ \* SQLAlchemyError: rollback, 500
              /\ Len(query) >= 1 /\ ~rejected
              /\ response' = Status("log", 500)
              /\ UNCHANGED search_log
        /\ UNCHANGED <<table, icd10, recorded, engineVars, auxVars>>

\* ClinicalScoringEngine.normalize_icd_code
normalize_icd_code(value) == Upper(RemoveChar(RemoveChar(value, "."), " "))

\* ClinicalScoringEngine.is_icd_code_query, with scoring_engine.ICD_CODE_QUERY_RE
\* = ^[A-Z][0-9]{2,4}$
is_icd_code_query(query) ==
    LET n == normalize_icd_code(query)
    IN  /\ Len(n) >= 3 /\ Len(n) <= 5
        /\ n[1] \in UpperLetters
        /\ AllDigits(Tail(n))

\* An ICD10Candidate as the repository hands it to the service.
ICD10Candidate(code, exact_match, prefix_match, description_match, fuzzy_similarity, synonym_match) ==
    [code |-> code, exact_match |-> exact_match, prefix_match |-> prefix_match,
     description_match |-> description_match,
     fuzzy_similarity |-> fuzzy_similarity, synonym_match |-> synonym_match]

\* ClinicalScoringEngine.score, in units of 1e-4 (fuzzy_similarity in units
\* of 1e-4 as well).
score(s, global_frequency, user_frequency, query) ==
    LET exact_boost == IF s.exact_match THEN 1000000 ELSE 0
        prefix_boost == IF s.prefix_match THEN 500000 ELSE 0
        dictionary_boost == IF s.synonym_match THEN 350000 ELSE 0
        fuzzy_component == Max(0, s.fuzzy_similarity) * 20
        frequency_component == Min(global_frequency, 200) * 1500
        previous_usage_component == Min(user_frequency, 100) * 4000
    IN  IF is_icd_code_query(query)
        THEN exact_boost + prefix_boost + dictionary_boost
             + (IF s.description_match THEN 200000 ELSE 0)
             + fuzzy_component + frequency_component + previous_usage_component
        ELSE exact_boost + dictionary_boost
             + (IF s.description_match THEN 150000 ELSE 0)
             + fuzzy_component + frequency_component + previous_usage_component

\* ClinicalSearchService._match_type
match_type(candidate) ==
    IF candidate.exact_match THEN "exact"
    ELSE IF candidate.synonym_match THEN "synonym"
    ELSE IF candidate.fuzzy_similarity > 0 THEN "fuzzy"
    ELSE "direct"

\* ClinicalSearchService._rank_candidates: sorted by dictionary priority
\* (0: an ICD10Candidate has no such field) descending, score descending,
\* code ascending.
rank_candidates(query, merged, usage) ==
    LET ranked(c) ==
            LET g == IF c.code \in DOMAIN usage
                     THEN usage[c.code].global_frequency ELSE 0
                u == IF c.code \in DOMAIN usage
                     THEN usage[c.code].user_frequency ELSE 0
                sc == score(c, g, u, query)
            IN  [key |-> <<0, sc>>, code |-> c.code,
                 row |-> [code |-> c.code, score |-> sc,
                          match_type |-> match_type(c)]]
        sorted == OrderBy({ranked(c) : c \in Range(merged)})
    IN  [i \in 1..Len(sorted) |-> sorted[i].row]

\* What ClinicalSearchService.search gives back.
SearchResponse(status, log_write, top_ranked, res) ==
    [handler |-> "search", status |-> status, log_write |-> log_write,
     top_ranked |-> top_ranked, results |-> res]

\* insert_search_log filing the term as the selected code too.
insert_search_log_term_as_icd(original_query, normalized_query, selected_icd, selected_term, user_id, specialty) ==
    ClinicalSearchLog(user_id, original_query, normalized_query, selected_term,
                      Upper(selected_term), None, specialty)

\* ClinicalSearchRepository.insert_search_log: the row it adds.
insert_search_log(original_query, normalized_query, selected_icd, selected_term, user_id, specialty) ==
    ClinicalSearchLog(user_id, original_query, normalized_query, selected_term,
                      selected_icd, None, specialty)

\* ClinicalSearchService.search. The candidates the repository reads hand
\* back (dictionary, hybrid search, mapped codes, merged by code) are the
\* input merged; status 0 is a normal return, 1 an exception that reaches
\* the caller.
ServiceSearch(query, lim, user_id, specialty, merged) ==
    LET original_query == Strip(query)
        normalized_query == normalize_text(original_query)
        normalized_code_query == Lower(normalize_icd_code(original_query))
        usage == get_usage_stats(search_log,
                                 [i \in 1..Len(merged) |-> merged[i].code],
                                 user_id)
        ranked == rank_candidates(normalized_query, merged, usage)
        top_ranked == SlicePrefix(ranked, lim)
        row == insert_search_log(original_query, normalized_query, None,
                                 normalized_query, user_id, specialty)
    IN  /\ Len(search_log) < MaxLog
        /\ \/ \* lines 42-43
              /\ normalized_query = << >> /\ normalized_code_query = << >>
              /\ response' = SearchResponse(0, "none", << >>, << >>)
              /\ UNCHANGED search_log
           \/ \* a store read raises
              /\ ~(normalized_query = << >> /\ normalized_code_query = << >>)
              /\ response' = SearchResponse(1, "none", << >>, << >>)
              /\ UNCHANGED search_log
           \/ \* insert_search_log commits
              /\ ~(normalized_query = << >> /\ normalized_code_query = << >>)
              /\ search_log' = Append(search_log, row)
              /\ response' = SearchResponse(0, "ok", top_ranked, top_ranked)
           \/ \* insert_search_log raises, the rollback of line 111 succeeds
              /\ ~(normalized_query = << >> /\ normalized_code_query = << >>)
              /\ response' = SearchResponse(0, "raised", top_ranked, top_ranked)
              /\ UNCHANGED search_log
           \/ \* insert_search_log raises, the rollback of line 111 raises
              /\ ~(normalized_query = << >> /\ normalized_code_query = << >>)
              /\ response' = SearchResponse(1, "raised", top_ranked, << >>)
              /\ UNCHANGED search_log
        /\ UNCHANGED <<table, icd10, recorded, engineVars, auxVars>>

(***************************************************************************)
(* GET /search/suggest.                                                    *)
(***************************************************************************)
\* line 53: .limit(5)
suggest_limit == 5

\* lines 42-51: the rows whose query or selected_term contains q (ILIKE),
\* grouped by selected_term with their count.
suggest_groups(log, q) ==
    LET hits == {i \in 1..Len(log) :
                    \/ IContains(Coalesce(log[i].query), q)
                    \/ IContains(Coalesce(log[i].selected_term), q)}
    IN  {[selected_term |-> term,
          frequency |-> Cardinality({i \in hits : log[i].selected_term = term})] :
            term \in {log[i].selected_term : i \in hits}}

\* lines 52-53: ORDER BY count DESC LIMIT 5; groups of equal count come in
\* any order, so the statement has several possible results.
suggest_lists(log, q) ==
    LET groups == suggest_groups(log, q)
        n == Cardinality(groups)
        orders == {o \in [1..n -> groups] :
                      /\ \A i, j \in 1..n : i # j => o[i] # o[j]
                      /\ \A i, j \in 1..n : i < j => o[i].frequency >= o[j].frequency}
    IN  {SlicePrefix(o, suggest_limit) : o \in orders}

\* What suggest answers: the status, the query it was asked and the list.
SuggestResponse(code, query, list) ==
    [handler |-> "suggest", status |-> code, log_write |-> "none",
     top_ranked |-> << >>, results |-> list, query |-> query]

\* GET /search/suggest (lines 23-64)
Suggest(query) ==
    LET q == Lower(Strip(query))
    IN  /\ Len(search_log) < MaxLog
        /\ \/ /\ q = << >>
              /\ response' = SuggestResponse(400, query, << >>)
           \/ /\ q # << >>
              /\ \E list \in suggest_lists(search_log, q) :
                    response' = SuggestResponse(200, query, list)
           \/ \* the statement raises
              /\ q # << >>
              /\ response' = SuggestResponse(500, query, << >>)
        /\ UNCHANGED <<table, icd10, search_log, recorded, engineVars, auxVars>>

(***************************************************************************)
(* Bounded inputs of the log handlers.                                     *)
(***************************************************************************)
DM2 == <<"d","m","2">>

SelectCodes == {None, <<" ","e","1","1"," ">>, <<"E","1","1",".","9">>, <<"Z","9","9">>, <<"e","#">>}

SelectQueries == {<<"d","m","2">>, <<"-","-">>, <<" ">>}

UserIds == {None, <<"u","1">>, <<" ">>}

LogQueries == {<< >>, <<" ">>, <<"-","-">>, <<"d","m","2">>}

LogTerms == {None, <<" ","D","M"," ">>}

LogCodes == {None, <<"z","z","z">>, <<" ","e","1","1"," ">>}

Specialties == {None, <<" ">>}

SuggestQueries == {<<"d","m">>, <<" ">>}

ServiceQueries == {<<" ">>, <<"d","m","2">>, <<"E","1","1">>}

ServiceLimits == {1, 2}

ServiceUsers == {None, <<"u","1">>}

\* Candidate lists of the repository reads.
ServiceCandidates ==
    << ICD10Candidate(<<"E","1","1">>, FALSE, FALSE, TRUE, 0, FALSE),
       ICD10Candidate(<<"E","1","1",".","9">>, FALSE, FALSE, TRUE, 0, FALSE) >>

ServiceReads == {<< >>, ServiceCandidates}

\* The requests sent to the handlers: a plain request of each handler, and
\* the requests that depart from it in one argument (for POST /search/log,
\* in any of selected_term and selected_icd as well).
Departures(r, plain) == Cardinality({i \in DOMAIN r : r[i] # plain[i]})

SelectRequests ==
    {r \in SelectQueries \X SelectCodes \X UserIds :
        Departures(r, <<DM2, <<"E","1","1",".","9">>, None>>) <= 1}

LogRequests ==
    {r \in LogQueries \X LogTerms \X LogCodes \X Specialties \X UserIds :
        \/ r[1] = DM2 /\ r[4] = None /\ r[5] = None
        \/ Departures(r, <<DM2, <<" ","D","M"," ">>, None, None, None>>) <= 1}

ServiceRequests ==
    {r \in ServiceQueries \X ServiceLimits \X ServiceUsers \X ServiceReads :
        Departures(r, <<DM2, 1, None, ServiceCandidates>>) <= 1}

NextLog ==
    \/ \E r \in SelectRequests : RecordSelection(DM2, r[1], r[2], r[3], None)
    \/ \E r \in LogRequests : LogSearch(r[1], r[2], r[3], r[4], r[5])
    \/ \E r \in ServiceRequests : ServiceSearch(r[1], r[2], r[3], None, r[4])
    \/ \E q \in SuggestQueries : Suggest(q)

\* The log handlers never read icd10_extended: one table is enough.
InitLog == Init /\ table = FixedRows

SpecLog == InitLog /\ [][NextLog]_vars

UsageCodes == ICD10Codes \cup {<<"Z","9","9">>}

UsageCodeLists ==
    {<<c>> : c \in UsageCodes} \cup {<<c, d>> : c \in UsageCodes, d \in UsageCodes}

\* C9: after record_selection succeeded for code C with user id U, every
\* later get_usage_stats over a code list containing C with user_id = U
\* reports C with global_frequency >= 1 and user_frequency >= 1.
C9_SelectionRoundTrip ==
    \A sel \in recorded :
        sel[2] # None =>
            \A codes \in UsageCodeLists :
                sel[1] \in Range(codes) =>
                    LET usage == get_usage_stats(search_log, codes, sel[2])
                    IN  /\ sel[1] \in DOMAIN usage
                        /\ usage[sel[1]].global_frequency >= 1
                        /\ usage[sel[1]].user_frequency >= 1

\* A selection with a user id succeeded and another handler wrote a row of
\* its own after it.
C9_Witness ==
    /\ Len(search_log) = 2
    /\ \E sel \in recorded : /\ sel[1] = search_log[1].selected_icd
                              /\ sel[2] = search_log[1].user_id
    /\ search_log[1].user_id # None
    /\ search_log[2].selected_icd # search_log[1].selected_icd

\* C10: every search-log row whose selected_icd is non-null references a code
\* of the icd10 table.
C10_SelectedIcdExists ==
    \A i \in 1..Len(search_log) :
        search_log[i].selected_icd # None => search_log[i].selected_icd \in icd10

\* ---------------------------------------------------------------------
\* C11: POST /icd10/select answers 422 for malformed inputs, 404 for a
\* well-formed code that is absent and 500 for a failed write; a call that
\* ends in one of these three error outcomes leaves the search log holding
\* exactly the rows it held before the call.
C11_ErrorsLeaveLogUnchanged ==
    [][(response'.handler = "select" /\ response'.status \in {422, 404, 500})
           => search_log' = search_log]_vars

\* ---------------------------------------------------------------------
\* C12: every call to ClinicalSearchEngine.search has emitted exactly one
\* structured search event when it returns, also for an empty normalized
\* query, for a plan whose attempts all yield nothing (the event then
\* carries candidate_count = 0 and result_count = 0) and for a retrieval
\* that raised; emitting the event never raises.
C12_ExactlyOneEvent ==
    pc = "done" =>
        /\ outcome = "returned"
        /\ Len(events) = 1
        /\ events[1].candidate_count = Len(candidates)
        /\ events[1].result_count = Len(results)

(***************************************************************************)
(* Cancellation of a search request.  A request is cancelled by throwing   *)
(* asyncio.CancelledError into the coroutine at the await it is suspended  *)
(* on.  CancelledError derives from BaseException, so no "except           *)
(* Exception" of search or search_candidates catches it: it leaves search  *)
(* and the caller gets no list.                                            *)
(***************************************************************************)
\* The awaits of search and search_candidates.
SuspensionPoints ==
    {"execute", "repo_rollback", "fallback", "fallback_rollback",
     "diag_count", "diag_top", "engine_rollback"}

\* CancelledError caught by the handler of line 315 like a store exception.
Cancel_caught ==
    /\ pc \in SuspensionPoints \ {"engine_rollback"}
    /\ raised' = raised \cup {"cancel"}
    /\ pc' = "engine_rollback"
    /\ UNCHANGED <<storeVars, argVars, localVars, attempt, candidates, stmts,
                   events, results, outcome>>

\* CancelledError thrown at an await of lines 210, 317 (engine) or 395, 399,
\* 433, 437, 466, 473 (repository): it propagates out of search.
Cancel ==
    /\ pc \in SuspensionPoints
    /\ raised' = raised \cup {"cancel"}
    /\ outcome' = "cancelled"
    /\ results' = << >>
    /\ pc' = "done"
    /\ UNCHANGED <<storeVars, argVars, localVars, attempt, candidates, stmts,
                   events>>

NextCancel ==
    \/ \E q \in RawQueries, l \in Limits, tf \in TagFilters : Search(q, l, tf)
    \/ ExecutePrimary
    \/ RepoRollback
    \/ ExecuteFallback
    \/ FallbackRollback
    \/ DiagnosticCount
    \/ DiagnosticTop
    \/ RankAndReturn
    \/ EngineRollback
    \/ Cancel
    \/ Respond

InitCancel == Init /\ table = ExtendedRows

SpecCancel == InitCancel /\ [][NextCancel]_vars

\* The rows attempt k of the plan can hand to the ranking: those of its
\* primary statement or those of its code-only fallback.
AttemptCandidates(k) ==
    {primary_rows(table, search_attempts[k].query, candidate_limit, tags_filter,
                  is_code_query, search_attempts[k].min_hits),
     fallback_rows(table, search_attempts[k].query, candidate_limit)}

\* ---------------------------------------------------------------------
\* C13: a request cancelled at a store suspension point (a retrieval
\* attempt, the fallback query, a diagnostic query or a rollback) delivers
\* no results; a list that is delivered is empty or is the complete ranked
\* and trimmed list of the candidates of one attempt, never a part of it.
C13_CancelDeliversNothing ==
    /\ ("cancel" \in raised /\ pc = "done") =>
            (outcome = "cancelled" /\ results = << >>)
    /\ (pc = "done" /\ outcome = "returned") =>
            \/ results = << >>
            \/ \E k \in 1..Len(search_attempts) : \E rows \in AttemptCandidates(k) :
                    results = final_results(rows, intent, effective_limit)

C13_Witness ==
    /\ pc = "done" /\ outcome = "cancelled"
    /\ Len(stmts) >= 2
    /\ \E k \in 1..Len(search_attempts) : \E rows \in AttemptCandidates(k) :
            StoreAccepts(candidate_limit) /\ rows # << >>

(***************************************************************************)
(* Two callers with a search request each.  Every request has its own      *)
(* ClinicalSearchEngine, AsyncSession and ICD10ExtendedRepository          *)
(* (clinical_icd10_search.py line 191, get_async_db); what the requests    *)
(* share is the store and the module-level _table_cache.  A step of a      *)
(* request runs from one await to the next.                                *)
(***************************************************************************)
\* lines 200-207: the plan a request builds for itself.
request_plan_shared(norm, is_code) ==
    IF \E r \in Requests : reqs[r].search_attempts # << >>
    THEN reqs[CHOOSE r \in Requests : reqs[r].search_attempts # << >>].search_attempts
    ELSE build_search_attempts(norm, is_code)

request_plan(norm, is_code) ==
    build_search_attempts(norm, is_code)

\* lines 154-207: the request after the synchronous prefix of search.
start_request(q, l, tf) ==
    LET raw_direct == Strip(q)
        is_code == is_code_query_of(raw_direct)
        norm == IF is_code THEN normalize_code_query(raw_direct)
                ELSE normalize_query(q)
        empty == ~is_code /\ norm = << >>
    IN  [pc |-> IF empty THEN "done" ELSE "execute",
         raw_query |-> q, limit |-> l, tags_filter |-> tf,
         is_code_query |-> is_code, normalized |-> norm,
         intent |-> IF empty \/ is_code \/ ~enable_intent_detection THEN None
                    ELSE detect_intent(norm),
         search_attempts |-> IF empty THEN << >> ELSE request_plan(norm, is_code),
         attempt |-> IF empty THEN 0 ELSE 1,
         candidates |-> << >>, results |-> << >>,
         outcome |-> IF empty THEN "returned" ELSE "none", failed |-> FALSE]

\* line 156
request_limit(req) == effective_limit_of(req.limit) * candidate_multiplier

\* lines 241-314: rank, trim, group and return.
request_return(req, cands) ==
    [req EXCEPT !.candidates = cands,
                !.results = final_results(cands, req.intent, effective_limit_of(req.limit)),
                !.outcome = "returned", !.pc = "done"]

\* line 443 and lines 225-228: rows end the loop, no rows go to the diagnostics.
request_rows(req, rows) ==
    IF rows = << >> THEN [req EXCEPT !.pc = "diag_count"]
    ELSE request_return(req, rows)

\* lines 209-228: search_candidates returned []: next attempt, or leave the loop.
request_attempt_empty(req) ==
    IF req.attempt < Len(req.search_attempts)
    THEN [req EXCEPT !.attempt = @ + 1, !.pc = "execute", !.candidates = << >>]
    ELSE request_return(req, << >>)

\* A store call of the request raised.
request_failed(req, to) == [req EXCEPT !.pc = to, !.failed = TRUE]

\* The requests one step (await to await) can lead to.
request_steps(req, tbl) ==
    LET a == req.search_attempts[req.attempt]
        lim == request_limit(req)
    IN  CASE req.pc = "execute" ->
                (IF StoreAccepts(lim)
                 THEN {request_rows(req, primary_rows(tbl, a.query, lim, req.tags_filter,
                                                      req.is_code_query, a.min_hits))}
                 ELSE {})
                \cup {request_failed(req, "repo_rollback")}
          [] req.pc = "repo_rollback" -> {[req EXCEPT !.pc = "fallback"]}
          [] req.pc = "fallback" ->
                (IF StoreAccepts(lim)
                 THEN {request_rows(req, fallback_rows(tbl, a.query, lim))}
                 ELSE {})
                \cup {request_failed(req, "fallback_rollback")}
          [] req.pc = "fallback_rollback" -> {request_attempt_empty(req)}
          [] req.pc = "diag_count" ->
                {[req EXCEPT !.pc = "diag_top"], request_failed(req, "engine_rollback")}
          [] req.pc = "diag_top" ->
                {request_attempt_empty(req), request_failed(req, "engine_rollback")}
          [] req.pc = "engine_rollback" ->
                {[req EXCEPT !.results = << >>, !.outcome = "returned", !.pc = "done"]}
          [] OTHER -> {}

ConcurrentQueries == {<<"d","o","l","o","r"," ","d","e"," ","c","a","b","e","z","a">>, <<"E","1","1">>, <<"d","m">>, <<"x","q","x","q">>, <<" ","C","e","f","a","l","é","a"," ">>}

ConcurrentLimits == {NoInt, Some(1)}

ConcurrentSearch(r, q, l, tf) ==
    /\ reqs[r].pc = "idle"
    /\ reqs' = [reqs EXCEPT ![r] = start_request(q, l, tf)]
    /\ UNCHANGED <<table, engineVars, logVars, table_cache, probe, boot>>

\* _get_icd10_extended_table: the Table object is made once per bind.
ConcurrentStep(r) ==
    /\ \E n \in request_steps(reqs[r], table) : reqs' = [reqs EXCEPT ![r] = n]
    /\ table_cache' = IF reqs[r].pc = "execute" THEN table_cache \cup {"bind"}
                      ELSE table_cache
    /\ UNCHANGED <<table, engineVars, logVars, probe, boot>>

ConcurrentRespond(r) ==
    /\ reqs[r].pc = "done"
    /\ reqs' = [reqs EXCEPT ![r] = IdleRequest]
    /\ UNCHANGED <<table, engineVars, logVars, table_cache, probe, boot>>

NextConcurrent ==
    \/ \E r \in Requests, q \in ConcurrentQueries, l \in ConcurrentLimits :
            ConcurrentSearch(r, q, l, << >>)
    \/ \E r \in Requests : ConcurrentStep(r)
    \/ \E r \in Requests : ConcurrentRespond(r)

\* A store in which "dolor de cabeza" is served by a later attempt of its plan.
ConcurrentTable ==
    FixedRows \cup {row \in OptionalRows : row.code = <<"G","4","3">>}

InitConcurrent == Init /\ table = ConcurrentTable

SpecConcurrent == InitConcurrent /\ [][NextConcurrent]_vars

\* What search returns for a request that runs alone and whose store calls
\* all succeed: the ranked list of the first attempt of its plan that yields.
solo_results(tbl, q, l, tf) ==
    LET raw_direct == Strip(q)
        is_code == is_code_query_of(raw_direct)
        norm == IF is_code THEN normalize_code_query(raw_direct)
                ELSE normalize_query(q)
        plan == build_search_attempts(norm, is_code)
        lim == effective_limit_of(l) * candidate_multiplier
        rows(k) == primary_rows(tbl, plan[k].query, lim, tf, is_code, plan[k].min_hits)
        yields == {k \in 1..Len(plan) : rows(k) # << >>}
        first == CHOOSE k \in yields : \A j \in yields : k <= j
        intent_ == IF is_code \/ ~enable_intent_detection THEN None
                   ELSE detect_intent(norm)
    IN  IF (~is_code /\ norm = << >>) \/ ~StoreAccepts(lim) \/ yields = {}
        THEN << >>
        ELSE final_results(rows(first), intent_, effective_limit_of(l))

\* ---------------------------------------------------------------------
\* C14: two concurrent search requests are independent: under every
\* interleaving of their steps at store suspension points, a request
\* returns what it returns when it runs alone on the same store contents,
\* and the retry outcome of a request (the variant or attempt that won) has
\* no influence on a later request.
C14_ConcurrentIndependence ==
    \A r \in Requests :
        (reqs[r].pc = "done" /\ ~reqs[r].failed) =>
            reqs[r].results = solo_results(table, reqs[r].raw_query,
                                           reqs[r].limit, reqs[r].tags_filter)

\* A request returned the list of a later attempt of its plan while the
\* other request, with another query, was inside its own plan; a previous
\* request had been served before.
C14_Witness ==
    /\ table_cache # {}
    /\ reqs[1].pc = "done" /\ ~reqs[1].failed /\ reqs[1].attempt >= 2
    /\ reqs[1].results # << >>
    /\ reqs[2].pc \notin {"idle", "done"} /\ reqs[2].attempt >= 1
    /\ reqs[2].raw_query # reqs[1].raw_query

(***************************************************************************)
(* The pure functions of the pipeline applied on their own: _rank on two   *)
(* candidates, normalize_text and _normalize_query on a text.              *)
(***************************************************************************)
\* ExtendedICD10Candidate values handed to _rank.
RankCandidates ==
    [code : {<<"A","0","0">>},
     similarity : {0, 2500, 10000},
     priority : {0, 6, 10},
     tags : {<< >>, <<"p","a","i","n">>, <<"n","e","u","r","o","l","o","g","i","c","a","l",",","p","a","i","n">>},
     exact_code_match : BOOLEAN,
     prefix_match : BOOLEAN,
     description_match : BOOLEAN]

RankIntents == {None, <<"n","e","u","r","o","l","o","g","i","c","a","l">>}

\* c2 is c1 with one thing raised: the similarity, the priority, or one more
\* positive signal (a match flag, the intent found in the tags, tags present).
Improves(c1, c2, intent_) ==
    LET same(fields) == \A f \in fields : c1[f] = c2[f]
        others(f) == {"similarity", "priority", "tags", "exact_code_match",
                      "prefix_match", "description_match"} \ {f}
    IN  \/ same(others("similarity")) /\ c2.similarity > c1.similarity
        \/ same(others("priority")) /\ c2.priority > c1.priority
        \/ same(others("exact_code_match")) /\ ~c1.exact_code_match /\ c2.exact_code_match
        \/ same(others("prefix_match")) /\ ~c1.prefix_match /\ c2.prefix_match
        \/ same(others("description_match")) /\ ~c1.description_match /\ c2.description_match
        \/ /\ same(others("tags"))
           /\ \/ c1.tags = << >> /\ c2.tags # << >>
              \/ /\ c1.tags # << >>
                 /\ ~intent_aligned(c1, intent_) /\ intent_aligned(c2, intent_)

RankProbes ==
    {[fn |-> "rank",
      arg |-> [first |-> c1, second |-> [c2 EXCEPT !.code = <<"A","0","1">>], intent |-> i],
      val |-> << >>] :
        <<c1, c2, i>> \in {t \in RankCandidates \X RankCandidates \X RankIntents :
                              Improves(t[1], t[2], t[3])}}

\* Pieces the probed texts are made of: stopwords, a word with an upper-case
\* letter, accented letters, blanks and characters outside [a-z0-9.].
TextPieces == {<<"d","e">>, <<"l","a">>, <<"T","o","s">>, <<"É">>, <<"ñ">>, <<" ">>, <<"-">>, <<".">>}

MaxPieces == 3

RECURSIVE TextsOf(_)
TextsOf(n) ==
    IF n = 0 THEN {<< >>}
    ELSE LET shorter == TextsOf(n - 1)
         IN  shorter \cup {t \o piece : t \in shorter, piece \in TextPieces}

NormalizeProbes ==
    {[fn |-> "normalize", arg |-> t, val |-> << >>] : t \in TextsOf(MaxPieces)}

\* _rank on the two candidates.
ApplyRank ==
    /\ probe.fn = "rank" /\ probe.val = << >>
    /\ probe' = [probe EXCEPT !.val = rank(<<probe.arg.first, probe.arg.second>>,
                                          probe.arg.intent)]
    /\ UNCHANGED <<table, engineVars, logVars, reqs, table_cache, boot>>

\* normalize_text and _normalize_query on the text, and on their own value.
ApplyNormalize ==
    /\ probe.fn = "normalize" /\ probe.val = << >>
    /\ probe' = [probe EXCEPT !.val =
                    [text |-> normalize_text(probe.arg),
                     text_again |-> normalize_text(normalize_text(probe.arg)),
                     query |-> normalize_query(probe.arg),
                     query_again |-> normalize_query(normalize_query(probe.arg))]]
    /\ UNCHANGED <<table, engineVars, logVars, reqs, table_cache, boot>>

(***************************************************************************)
(* search_config.py: the values the singletons of the module take from the *)
(* environment when it is imported.                                        *)
(***************************************************************************)
\* int(text): blanks around, an optional sign, digits with single
\* underscores between them.  << >> stands for ValueError.
ParseInt(text) ==
    LET body == Strip(text)
        negative == body # << >> /\ Head(body) = "-"
        signed == body # << >> /\ Head(body) \in {"-", "+"}
        digits == IF signed THEN Tail(body) ELSE body
        wellformed ==
            /\ digits # << >>
            /\ digits[1] \in Digits /\ digits[Len(digits)] \in Digits
            /\ \A i \in 1..Len(digits) : digits[i] \in Digits \cup {"_"}
            /\ \A i \in 1..(Len(digits) - 1) : ~(digits[i] = "_" /\ digits[i + 1] = "_")
        magnitude == ParseNat(RemoveChar(digits, "_"))
    IN  IF ~wellformed THEN << >>
        ELSE IF negative THEN <<0 - magnitude>> ELSE <<magnitude>>

\* float(text) in units of 1e-4, for the texts without exponent, underscore,
\* "inf" or "nan": blanks around, an optional sign, digits with an optional
\* point and at most four digits behind it.  << >> stands for ValueError.
ParseFloat(text) ==
    LET body == Strip(text)
        negative == body # << >> /\ Head(body) = "-"
        signed == body # << >> /\ Head(body) \in {"-", "+"}
        number == IF signed THEN Tail(body) ELSE body
        points == {i \in 1..Len(number) : number[i] = "."}
        point == IF points = {} THEN Len(number) + 1 ELSE CHOOSE i \in points : TRUE
        whole == SubSeq(number, 1, point - 1)
        fraction == SubSeq(number, point + 1, Len(number))
        wellformed ==
            /\ Cardinality(points) <= 1
            /\ AllDigits(whole) /\ AllDigits(fraction)
            /\ whole \o fraction # << >>
            /\ Len(fraction) <= 4
        padded == fraction \o SubSeq(<<"0","0","0","0">>, 1, 4 - Len(fraction))
        magnitude == 10000 * ParseNat(whole) + ParseNat(padded)
    IN  IF ~wellformed THEN << >>
        ELSE IF negative THEN <<0 - magnitude>> ELSE <<magnitude>>

\* str(default) of line 16
BoolText(b) == IF b THEN <<"T","r","u","e">> ELSE <<"F","a","l","s","e">>

\* os.getenv(name, text): the text of the variable, or the given one when the
\* variable is not set (None).
getenv(value, text) == IF value = None THEN text ELSE value

\* line 16
env_bool(value, default) ==
    Lower(Strip(getenv(value, BoolText(default)))) \in {<<"1">>, <<"t","r","u","e">>, <<"y","e","s">>, <<"o","n">>}

\* lines 19-23; a variable that is not set gives float(str(default)) = default
env_float(value, default) ==
    IF value = None THEN default
    ELSE IF ParseFloat(value) = << >> THEN default
    ELSE ParseFloat(value)[1]

\* lines 26-30
env_int(value, default) ==
    IF value = None THEN default
    ELSE IF ParseInt(value) = << >> THEN default
    ELSE ParseInt(value)[1]

\* The keys of SearchFeatureFlags, RankingWeights and SearchTuning with their
\* kind and default (lines 37-105); floats in units of 1e-4.
ConfigKeys ==
    {[name |-> "USE_EXTENDED_ICD10", kind |-> "bool", default |-> <<TRUE>>],
     [name |-> "SEARCH_ENABLE_INTENT_DETECTION", kind |-> "bool", default |-> <<TRUE>>],
     [name |-> "SEARCH_ENABLE_LOGGING", kind |-> "bool", default |-> <<TRUE>>],
     [name |-> "SEARCH_DEBUG", kind |-> "bool", default |-> <<FALSE>>],
     [name |-> "RANK_W_SIMILARITY", kind |-> "float", default |-> <<100 * w_similarity>>],
     [name |-> "SEARCH_SIMILARITY_THRESHOLD", kind |-> "float", default |-> <<similarity_threshold>>],
     [name |-> "SEARCH_DEFAULT_LIMIT", kind |-> "int", default |-> <<default_limit>>],
     [name |-> "SEARCH_MAX_LIMIT", kind |-> "int", default |-> <<max_limit>>],
     [name |-> "SEARCH_CANDIDATE_MULTIPLIER", kind |-> "int", default |-> <<candidate_multiplier>>]}

\* The value a key is loaded with, as a one-element tuple.
load_key(key, value) ==
    CASE key.kind = "bool" -> <<env_bool(value, key.default[1])>>
      [] key.kind = "float" -> <<env_float(value, key.default[1])>>
      [] key.kind = "int" -> <<env_int(value, key.default[1])>>

\* Texts of an environment variable: not set, boolean words, numbers and
\* texts that are none of these.
EnvValues ==
    {None, << >>, <<"m","a","y","b","e">>, <<"t","r","u","e">>, <<" ","O","N"," ">>, <<"f","a","l","s","e">>, <<"0">>, <<"1">>, <<" ","7"," ">>, <<"-","1">>, <<"1","_","0">>,
     <<"0",".","5">>, <<".","2","5">>, <<"1",",","5">>, <<"5","x">>, <<"a","b","c">>}

ConfigProbes ==
    {[fn |-> "config", arg |-> [key |-> k, value |-> v], val |-> << >>] :
        k \in ConfigKeys, v \in EnvValues}

\* The import of search_config with one variable of the environment set.
ApplyConfig ==
    /\ probe.fn = "config" /\ probe.val = << >>
    /\ probe' = [probe EXCEPT !.val = load_key(probe.arg.key, probe.arg.value)]
    /\ UNCHANGED <<table, engineVars, logVars, reqs, table_cache, boot>>

\* Texts whose normalized query is handed to _expand_query_variants.
VariantTexts ==
    {<<"d","o","l","o","r"," ","d","e"," ","c","a","b","e","z","a">>, <<"D","o","l","o","r"," "," ","C","a","b","e","z","a">>, <<"c","a","b","e","z","a"," ","d","o","l","o","r">>, <<"d","o","l","o","r">>, <<"c","a","b","e","z","a">>, <<"d","o","l","o","r","e","s"," ","d","e"," ","c","a","b","e","z","a">>,
     <<"d","o","l","o","r"," ","d","e"," ","l","a"," ","c","a","b","e","c","e","r","a">>, <<"d","o","l","o","r"," ","d","e","s","c","a","b","e","z","a","d","o">>, <<"c","e","f","a","l","e","a">>, <<"c","e","f","a","l","e","a"," ","d","o","l","o","r"," ","c","a","b","e","z","a">>, <<"d","e"," ","l","a">>, <<"t","o","s"," ","t","o","s">>}

VariantProbes ==
    {[fn |-> "variants", arg |-> normalize_query(t), val |-> << >>] : t \in VariantTexts}

\* _expand_query_variants on a normalized query (line 202).
ApplyVariants ==
    /\ probe.fn = "variants" /\ probe.val = << >>
    /\ probe' = [probe EXCEPT !.val = [variants |-> expand_query_variants(probe.arg)]]
    /\ UNCHANGED <<table, engineVars, logVars, reqs, table_cache, boot>>

\* Codes of the ranked lists handed to the grouping: two parents, their
\* children, and a code that is neither.
GroupCodes == {<<"E","1","1">>, <<"E","1","1",".","9">>, <<"E","1","1",".","6","5">>, <<"E","1","0">>, <<"E","1","0",".","1">>}

MaxRanked == 4

RECURSIVE RankedLists(_)
RankedLists(n) ==
    IF n = 0 THEN {<< >>}
    ELSE LET shorter == RankedLists(n - 1)
         IN  shorter \cup {Append(r, [code |-> c, source |-> "icd10_extended"]) :
                              r \in shorter, c \in GroupCodes}

GroupProbes ==
    {[fn |-> "group", arg |-> [ranked |-> r, limit |-> l], val |-> << >>] :
        r \in RankedLists(MaxRanked), l \in Limits}

\* Steps 4 and 4.1 of search on a ranked list (lines 245-284).
ApplyGroup ==
    /\ probe.fn = "group" /\ probe.val = << >>
    /\ probe' = [probe EXCEPT !.val =
            [results |-> group_results(trim(probe.arg.ranked,
                                            effective_limit_of(probe.arg.limit)))]]
    /\ UNCHANGED <<table, engineVars, logVars, reqs, table_cache, boot>>

NextProbe ==
    \/ ApplyRank
    \/ ApplyNormalize
    \/ ApplyConfig
    \/ ApplyVariants
    \/ ApplyGroup

InitProbe ==
    /\ InitProgram
    /\ table = ExtendedRows
    /\ probe \in RankProbes \cup NormalizeProbes \cup ConfigProbes \cup VariantProbes \cup GroupProbes
    /\ boot = NoBoot

SpecProbe == InitProbe /\ [][NextProbe]_vars

\* The score _rank gave the candidate with this code.
ScoreOf(ranked, code) ==
    (CHOOSE i \in 1..Len(ranked) : ranked[i].code = code)

\* ---------------------------------------------------------------------
\* C15: in _rank with the default weights, of two candidates that are the
\* same except that the second has a higher similarity, a higher priority
\* or one more positive signal (exact code match, prefix match, description
\* match, intent found in its tags, non-empty tags), the second gets a
\* score at least as high as the first.
C15_ScoreMonotone ==
    (probe.fn = "rank" /\ probe.val # << >>) =>
        /\ Len(probe.val) = 2
        /\ probe.val[ScoreOf(probe.val, probe.arg.second.code)].score
             >= probe.val[ScoreOf(probe.val, probe.arg.first.code)].score

\* The second candidate has the intent in its tags where the first has other
\* tags, and _rank scored it strictly higher and listed it first.
C15_Witness ==
    /\ probe.fn = "rank" /\ probe.val # << >>
    /\ probe.arg.first.tags # << >>
    /\ ~intent_aligned(probe.arg.first, probe.arg.intent)
    /\ intent_aligned(probe.arg.second, probe.arg.intent)
    /\ probe.val[1].code = probe.arg.second.code
    /\ probe.val[1].score > probe.val[2].score

\* ---------------------------------------------------------------------
\* C16: normalization is idempotent: normalize_text(normalize_text(s)) =
\* normalize_text(s) for every text s, and _normalize_query likewise, also
\* when its stopword safety fallback keeps a query made of stopwords only.
C16_NormalizeIdempotent ==
    (probe.fn = "normalize" /\ probe.val # << >>) =>
        /\ probe.val.text_again = probe.val.text
        /\ probe.val.query_again = probe.val.query

\* A text of several tokens, all stopwords, with letters to fold and
\* characters to drop: the fallback kept the stopwords.
C16_Witness ==
    /\ probe.fn = "normalize" /\ probe.val # << >>
    /\ probe.val.query = <<"d","e"," ","l","a">>
    /\ probe.val.text # probe.arg
    /\ \E i \in 1..Len(probe.arg) : probe.arg[i] = "-"

\* Positions of the children (XXX.*) of the parent at position i of the list.
ChildrenAt(list, i) ==
    {j \in 1..Len(list) : child_parent_key(list[j]) = group_code(list[i])}

\* The entry at position j is no parent and no child of a parent in the list.
Unrelated(list, j) ==
    /\ ~is_parent(list[j])
    /\ ~\E i \in 1..Len(list) : is_parent(list[i]) /\ j \in ChildrenAt(list, i)

\* ---------------------------------------------------------------------
\* C17: in the list search returns, every 3-character parent that has
\* children (XXX.*) in the list is immediately followed by all of them, in
\* score order, and the entries unrelated to any parent of the list keep
\* their relative ranked order.
C17_ParentThenChildren ==
    (pc = "done" /\ outcome = "returned") =>
        /\ \A i \in 1..Len(results) :
              (is_parent(results[i]) /\ ChildrenAt(results, i) # {}) =>
                  /\ ChildrenAt(results, i)
                        = (i + 1)..(i + Cardinality(ChildrenAt(results, i)))
                  /\ \A j, k \in ChildrenAt(results, i) :
                        j < k => results[j].score >= results[k].score
        /\ \A j, k \in 1..Len(results) :
              (j < k /\ Unrelated(results, j) /\ Unrelated(results, k)) =>
                  \/ results[j].score > results[k].score
                  \/ /\ results[j].score = results[k].score
                     /\ StrLess(results[j].code, results[k].code)

\* ---------------------------------------------------------------------
\* C18: when a tags_filter is given to search_candidates, every candidate
\* it returns has tags that contain at least one of the listed tags, on
\* every return path, the code-only fallback taken after a failed primary
\* statement included.
C18_TagsFilterOnEveryPath ==
    tags_filter # << >> =>
        \A i \in 1..Len(candidates) :
            \E t \in 1..Len(tags_filter) :
                IContains(candidates[i].tags, tags_filter[t])

\* The usage statistics of every code and user are the same on both logs
\* (get_usage_stats groups by code: the list of all codes covers every list).
SameUsage(log1, log2) ==
    LET codes == <<<<"E","1","1">>, <<"E","1","1",".","9">>, <<"R","5","2">>, <<"Z","9","9">>>>
    IN  \A u \in UserIds \cup ServiceUsers :
            get_usage_stats(log1, codes, u) = get_usage_stats(log2, codes, u)

C20_SuggestAfterSelect ==
    (response.handler = "suggest" /\ response.status = 200) =>
        \A sel \in recorded :
            Contains(sel[3], response.query) =>
                \E i \in 1..Len(response.results) :
                    response.results[i].selected_term = Lower(sel[1])

\* A text that is no boolean word: neither one of the words line 16 takes for
\* true nor one of their customary opposites.
MalformedBool(value) ==
    Lower(Strip(value)) \notin {<<"1">>, <<"t","r","u","e">>, <<"y","e","s">>, <<"o","n">>, <<"0">>, <<"f","a","l","s","e">>, <<"n","o">>, <<"o","f","f">>}

\* The variable of the probed key is set to a text its parser rejects.
MalformedEnv ==
    /\ probe.arg.value # None
    /\ CASE probe.arg.key.kind = "bool" -> MalformedBool(probe.arg.value)
         [] probe.arg.key.kind = "float" -> ParseFloat(probe.arg.value) = << >>
         [] probe.arg.key.kind = "int" -> ParseInt(probe.arg.value) = << >>

\* ---------------------------------------------------------------------
\* C21: every configuration key read from the environment (boolean flags,
\* float weights and threshold, integer limits) is loaded with its default
\* value when the variable holds a malformed text: an unparsable
\* USE_EXTENDED_ICD10 gives true, an unparsable SEARCH_MAX_LIMIT the
\* default limit.
C21_MalformedGivesDefault ==
    (probe.fn = "config" /\ probe.val # << >> /\ MalformedEnv) =>
        probe.val = probe.arg.key.default

(***************************************************************************)
(* startup_bootstrap: the run of main at process start.  boot.failed       *)
(* records the steps that raised, boot.ran the dependent steps that were   *)
(* started (rebuild, enrich, seed).                                        *)
(***************************************************************************)
\* The states a run starts from: the CSV of ICD-10 exists or not, the icd10
\* table has rows or not, clinical_dictionary has the expected columns or not.
BootStarts ==
    [pc : {"load"}, csv : BOOLEAN, loaded : BOOLEAN, needs_rebuild : BOOLEAN,
     found_loaded : {FALSE}, schema_ready : {FALSE}, pending : {FALSE},
     ran : {{}}, failed : {{}}, outcome : {"none"}]

bootFrame == <<table, engineVars, logVars, reqs, table_cache, probe>>

\* An exception leaves bootstrap at the given step.
Escape(step) ==
    boot' = [boot EXCEPT !.pc = "main_except", !.failed = @ \cup {step}]

\* line 185, load_icd10.py lines 30-87: a missing CSV raises
\* FileNotFoundError; SessionLocal() and db.close() are outside the handlers;
\* a failed load is caught and leaves the rows of the batches committed.
load_icd10 ==
    /\ boot.pc = "load"
    /\ \/ ~boot.csv /\ Escape("load_icd10")
       \/ boot.csv /\ Escape("load_icd10")
       \/ /\ boot.csv
          /\ \E rows \in BOOLEAN, raised_inside \in BOOLEAN :
                /\ boot.loaded => (rows /\ ~raised_inside)
                /\ (~boot.loaded /\ ~raised_inside) => rows
                /\ boot' = [boot EXCEPT !.pc = "session", !.loaded = rows,
                               !.failed = IF raised_inside THEN @ \cup {"load_icd10"} ELSE @]
    /\ UNCHANGED bootFrame

\* line 187: db = SessionLocal(), outside the try
open_session ==
    /\ boot.pc = "session"
    /\ \/ boot' = [boot EXCEPT !.pc = "check"]
       \/ Escape("session")
    /\ UNCHANGED bootFrame

\* lines 190-192, icd10_state.py lines 13-20: a failed count is caught and
\* read as not loaded; not loaded returns from inside the try.
check_icd10_loaded ==
    /\ boot.pc = "check"
    /\ \/ boot' = [boot EXCEPT !.found_loaded = boot.loaded,
                      !.pc = IF boot.loaded THEN "needs_rebuild" ELSE "finally"]
       \/ boot' = [boot EXCEPT !.failed = @ \cup {"check"}, !.pc = "finally"]
    /\ UNCHANGED bootFrame

\* lines 194, 197-199
clinical_dictionary_needs_rebuild ==
    /\ boot.pc = "needs_rebuild"
    /\ \/ boot.needs_rebuild /\ boot' = [boot EXCEPT !.pc = "rebuild"]
       \/ ~boot.needs_rebuild /\ boot' = [boot EXCEPT !.schema_ready = TRUE, !.pc = "finally"]
       \/ boot' = [boot EXCEPT !.failed = @ \cup {"needs_rebuild"}, !.pc = "except"]
    /\ UNCHANGED bootFrame

\* lines 195-196, 199
rebuild_clinical_dictionary ==
    /\ boot.pc = "rebuild"
    /\ \/ boot' = [boot EXCEPT !.ran = @ \cup {"rebuild"}, !.needs_rebuild = FALSE,
                      !.schema_ready = TRUE, !.pc = "finally"]
       \/ boot' = [boot EXCEPT !.ran = @ \cup {"rebuild"},
                      !.failed = @ \cup {"rebuild"}, !.pc = "except"]
    /\ UNCHANGED bootFrame

\* lines 200-202: db.rollback() is not guarded; when it raises, the finally
\* clause runs and the exception leaves bootstrap.
bootstrap_except ==
    /\ boot.pc = "except"
    /\ \/ boot' = [boot EXCEPT !.pc = "finally"]
       \/ boot' = [boot EXCEPT !.pc = "finally", !.pending = TRUE,
                      !.failed = @ \cup {"rollback"}]
    /\ UNCHANGED bootFrame

\* lines 203-204 and what follows the try statement: the pending exception or
\* a failed db.close() leaves bootstrap; the return of line 192 and
\* schema_ready = False skip the steps of lines 207-212.
bootstrap_finally ==
    /\ boot.pc = "finally"
    /\ \/ Escape("close")
       \/ boot.pending /\ Escape("rollback")
       \/ ~boot.pending /\ boot' = [boot EXCEPT !.pc =
                IF boot.schema_ready THEN "enrich" ELSE "main_return"]
    /\ UNCHANGED bootFrame

\* lines 207-208, 117-178: failures inside the try are caught; SessionLocal()
\* and db.close() are outside it.
ensure_icd10_extended_enriched ==
    /\ boot.pc = "enrich"
    /\ \/ boot' = [boot EXCEPT !.ran = @ \cup {"enrich"}, !.pc = "seed"]
       \/ boot' = [boot EXCEPT !.ran = @ \cup {"enrich"},
                      !.failed = @ \cup {"enrich"}, !.pc = "seed"]
       \/ boot' = [boot EXCEPT !.ran = @ \cup {"enrich"},
                      !.failed = @ \cup {"enrich_session"}, !.pc = "main_except"]
    /\ UNCHANGED bootFrame

\* lines 211-212, seed_clinical_dictionary.py lines 118-175
seed_clinical_dictionary ==
    /\ boot.pc = "seed"
    /\ \/ boot' = [boot EXCEPT !.ran = @ \cup {"seed"}, !.pc = "main_return"]
       \/ boot' = [boot EXCEPT !.ran = @ \cup {"seed"},
                      !.failed = @ \cup {"seed"}, !.pc = "main_return"]
       \/ boot' = [boot EXCEPT !.ran = @ \cup {"seed"},
                      !.failed = @ \cup {"seed_session"}, !.pc = "main_except"]
    /\ UNCHANGED bootFrame

\* main without its try statement.
main_uncaught ==
    /\ boot.pc \in {"main_return", "main_except"}
    /\ boot' = [boot EXCEPT !.pc = "done",
                   !.outcome = IF boot.pc = "main_except" THEN "raised" ELSE "returned"]
    /\ UNCHANGED bootFrame

\* lines 215-220: main catches every Exception bootstrap lets out
main ==
    /\ boot.pc \in {"main_return", "main_except"}
    /\ boot' = [boot EXCEPT !.pc = "done", !.outcome = "returned"]
    /\ UNCHANGED bootFrame

NextBoot ==
    \/ load_icd10
    \/ open_session
    \/ check_icd10_loaded
    \/ clinical_dictionary_needs_rebuild
    \/ rebuild_clinical_dictionary
    \/ bootstrap_except
    \/ bootstrap_finally
    \/ ensure_icd10_extended_enriched
    \/ seed_clinical_dictionary
    \/ main

InitBoot ==
    /\ InitProgram
    /\ table = FixedRows
    /\ probe = NoProbe
    /\ boot \in BootStarts

SpecBoot == InitBoot /\ [][NextBoot]_vars

\* ---------------------------------------------------------------------
\* C22: bootstrap never crashes startup: whatever step fails (the ICD-10
\* load, a missing CSV included, the schema check or rebuild, the
\* enrichment, the seeding), main returns without raising; the dictionary
\* rebuild, the enrichment and the seeding are started only after
\* check_icd10_loaded found ICD-10 loaded.
C22_BootstrapNeverCrashes ==
    /\ boot.pc = "done" => boot.outcome = "returned"
    /\ (boot.pc # "idle" /\ boot.ran # {}) => (boot.found_loaded /\ boot.loaded)

\* main returned after a missing CSV made load_icd10 raise.
C22_Witness ==
    /\ boot.pc = "done" /\ boot.outcome = "returned"
    /\ ~boot.csv /\ "load_icd10" \in boot.failed

\* ---------------------------------------------------------------------
\* C23: search_candidates never raises to its caller on a store error (the
\* handler of search is never entered); a fallback statement is sent only
\* right after the primary statement of the same attempt raised; the
\* candidates a fallback statement gave all have an exact or prefix code
\* match, similarity 0 and description_match false; and after a fallback
\* that raised or returned no rows the attempt has no candidates.
C23_SearchCandidatesNeverRaises ==
    /\ pc # "engine_rollback"
    /\ \A i \in 1..Len(stmts) :
          stmts[i].kind = "fallback" =>
              /\ i > 1
              /\ stmts[i - 1].kind = "primary"
              /\ stmts[i - 1].rows = -1
              /\ stmts[i - 1].attempt = stmts[i].attempt
    /\ (stmts # << >> /\ stmts[Len(stmts)].kind = "fallback"
            /\ pc \in {"rank", "diag_count"}) =>
          /\ Len(candidates) = Max(stmts[Len(stmts)].rows, 0)
          /\ \A c \in Range(candidates) :
                /\ c.exact_code_match \/ c.prefix_match
                /\ c.similarity = 0
                /\ ~c.description_match

\* ---------------------------------------------------------------------
\* C24: for a code query search issues exactly one retrieval attempt: the
\* plan holds the base attempt alone, with no expanded variant and no
\* relaxed min_hits, every statement sent belongs to it, and the request
\* ends after one primary statement also when the attempt gave no candidate.
C24_CodeQuerySingleAttempt ==
    (pc # "idle" /\ is_code_query) =>
        /\ Len(search_attempts) = 1
        /\ search_attempts[1].kind = "base"
        /\ search_attempts[1].min_hits = NoInt
        /\ attempt = 1
        /\ \A s \in Range(stmts) : s.attempt = 1 /\ s.min_hits = NoInt
        /\ Len(PrimaryStmts) <= 1
        /\ pc = "done" => Len(PrimaryStmts) = 1

\* A code query whose single attempt gave no candidate, with no store call
\* failing, returned the empty list.
C24_Witness ==
    /\ pc = "done" /\ is_code_query
    /\ outcome = "returned" /\ raised = {}
    /\ candidates = << >> /\ results = << >>
    /\ Len(PrimaryStmts) = 1 /\ PrimaryStmts[1].rows = 0

(***************************************************************************)
(* One caller that runs requests one after the other, through              *)
(* ClinicalSearchEngine.search or through ClinicalSearchService.search.    *)
(***************************************************************************)
OrderQueries ==
    {<< >>, <<"E","1","1">>, <<"x","q","x","q">>, <<"d","o","l","o","r"," ","d","e"," ","c","a","b","e","z","a">>}

\* The service searches of the caller: no user id, one result asked for.
OrderRequests == {r \in ServiceRequests : r[2] = 1 /\ r[3] = None}

\* The positions of search at which a statement is sent to the store.
RetrievalPoints == {"execute", "fallback", "diag_count", "diag_top"}

NextOrder ==
    \/ \E q \in OrderQueries : Search(q, NoInt, << >>)
    \/ ExecutePrimary
    \/ RepoRollback
    \/ ExecuteFallback
    \/ FallbackRollback
    \/ DiagnosticCount
    \/ DiagnosticTop
    \/ RankAndReturn
    \/ EngineRollback
    \/ Respond
    \/ /\ pc = "idle"
       /\ \E r \in OrderRequests : ServiceSearch(r[1], r[2], r[3], None, r[4])

InitOrder == Init /\ table = ConcurrentTable

SpecOrder == InitOrder /\ [][NextOrder]_vars

\* What a ClinicalSearchService.search call with the arguments and reads r
\* ranks, from the usage of the log as it is before the call writes to it.
service_top_ranked(r) ==
    SlicePrefix(rank_candidates(normalize_text(Strip(r[1])), r[4],
                                get_usage_stats(search_log,
                                                [i \in 1..Len(r[4]) |-> r[4][i].code],
                                                r[3])),
                r[2])

FromPrimary ==
    /\ pc \in {"rank", "diag_count"}
    /\ stmts # << >>
    /\ stmts[Len(stmts)].kind = "primary"
    /\ stmts[Len(stmts)].rows >= 0

\* The labelled columns of the row of a candidate for the statement s.
SignalsOf(c, s) ==
    row_signals(CHOOSE row \in table : row.code = c.code, s.query, is_code_query)

\* The admission predicate of the query class of statement s, on the
\* columns sig of a row: min_hits is 2, and 1 in the relaxed attempt.
Admitted(sig, s) ==
    LET token_count == Len(scoring_tokens(s.query, is_code_query))
        min_hits == IF s.min_hits = NoInt THEN 2 ELSE 1
    IN  IF s.query_is_code
        THEN sig.exact_code_match \/ sig.prefix_match
        ELSE IF token_count >= 2
             THEN \/ sig.description_match
                  \/ sig.token_hit_count >= min_hits
                  \/ (sig.similarity >= similarity_threshold
                        /\ sig.token_hit_count >= min_hits)
        ELSE sig.description_match \/ sig.similarity >= similarity_threshold

HeadachePhrase ==
    LET tokens == Split(probe.arg)
    IN  /\ \E k \in 1..Len(tokens) : tokens[k] = <<"d","o","l","o","r">>
        /\ \E k \in 1..Len(tokens) : StartsWith(tokens[k], <<"c","a","b","e">>)

\* ---------------------------------------------------------------------
\* C27: _expand_query_variants returns a list without duplicates, in the
\* order the variants were added (cefalea, migraña, then the query), that
\* contains the base normalized query, and that contains "cefalea" and
\* "migraña" exactly when the query has a token equal to dolor and a token
\* starting with cabe.
C27_VariantsOfQuery ==
    (probe.fn = "variants" /\ probe.val # << >>) =>
        LET variants == probe.val.variants
        IN  /\ \A i, j \in 1..Len(variants) : i # j => variants[i] # variants[j]
            /\ \E i \in 1..Len(variants) : variants[i] = probe.arg
            /\ ({<<"c","e","f","a","l","e","a">>, <<"m","i","g","r","a","ñ","a">>} \subseteq Range(variants)) <=> HeadachePhrase
            /\ variants = IF HeadachePhrase
                          THEN << <<"c","e","f","a","l","e","a">>, <<"m","i","g","r","a","ñ","a">>, probe.arg >>
                          ELSE << probe.arg >>

\* The variants of a query with the tokens dolor and cabeza, and with a
\* stopword dropped by the normalization, were added in front of the query.
C27_Witness ==
    /\ probe.fn = "variants" /\ probe.val # << >>
    /\ probe.arg = <<"d","o","l","o","r"," ","c","a","b","e","z","a">>
    /\ Len(probe.val.variants) = 3
    /\ probe.val.variants[3] = probe.arg

\* How many times each result occurs in a list.
Occurrences(seq) ==
    [x \in Range(seq) |-> Cardinality({i \in 1..Len(seq) : seq[i] = x})]

\* ---------------------------------------------------------------------
\* C28: the parent/child grouping only reorders: the returned list holds
\* the results of the ranked list trimmed to effective_limit, each as many
\* times as the trimmed list holds it, for every ranked list, also one with
\* a repeated code or with a child ranked above its parent.
C28_GroupingIsPermutation ==
    (probe.fn = "group" /\ probe.val # << >>) =>
        LET trimmed == trim(probe.arg.ranked, effective_limit_of(probe.arg.limit))
        IN  /\ Len(probe.val.results) = Len(trimmed)
            /\ Occurrences(probe.val.results) = Occurrences(trimmed)

\* A trimmed list with a repeated parent code was regrouped: the child moved
\* from the last place to behind the first parent.
C28_Witness ==
    /\ probe.fn = "group" /\ probe.val # << >>
    /\ LET trimmed == trim(probe.arg.ranked, effective_limit_of(probe.arg.limit))
       IN  /\ Len(trimmed) = 3
           /\ trimmed[1].code = <<"E","1","1">>
           /\ trimmed[2].code = <<"E","1","1">>
           /\ trimmed[3].code = <<"E","1","1",".","9">>
           /\ probe.val.results = <<trimmed[1], trimmed[3], trimmed[2]>>

\* ---------------------------------------------------------------------
\* C29: for every retrieval statement of a request, the class the store
\* layer works with (code query or natural language) is the class the
\* engine gave the request: a request classified as natural language is
\* never retrieved with the code-query predicate.
C29_SameClassification ==
    \A i \in 1..Len(stmts) :
        stmts[i].kind \in {"primary", "fallback"} =>
            stmts[i].query_is_code = is_code_query

\* The effective min_hits of a recorded statement (lines 272-285).
stmt_min_hits(s) ==
    effective_min_hits(Len(scoring_tokens(s.query, is_code_query)), s.min_hits)

\* ---------------------------------------------------------------------
\* C30: within one request no retrieval is repeated verbatim: every
\* attempt of the retry plan differs from all earlier attempts in its
\* query or in its effective min_hits.
C30_NoAttemptRepeated ==
    \A i, j \in 1..Len(stmts) :
        (/\ i < j
         /\ stmts[i].kind = "primary"
         /\ stmts[j].kind = "primary")
            => \/ stmts[i].query # stmts[j].query
               \/ stmt_min_hits(stmts[i]) # stmt_min_hits(stmts[j])

=============================================================================
